---- MODULE Spec2Model ----
(***************************************************************************)
(* A model of pipeline/scripts/aggregate_tpg_results.py: the Pareto mask   *)
(* (is_pareto_efficient), the build of the hierarchical map                *)
(* (canonicalize_tpg_dir, the nicknames, build_hierarchical_data,          *)
(* aggregate_averaged_data) and the resource normalisation                 *)
(* (import_uarch_ressources, find_baseline, assign_normalized_ressources). *)
(* Python strings are TLA+ strings, read with Len, SubSeq and \o.          *)
(***************************************************************************)
EXTENDS Integers, Sequences, FiniteSets, TLC

VARIABLES
    pc,            \* where the run is: one label per loop or call
    costs,         \* is_pareto_efficient: the N x K cost matrix (a sequence of rows)
    is_efficient,  \* is_pareto_efficient: the boolean mask
    row_i,         \* is_pareto_efficient: the index of `for i, c in enumerate(costs)`
    json_files,    \* build_hierarchical_data: the list of result files
    jf_i,          \* build_hierarchical_data: the index of `for jf in json_files`
    skipped,       \* build_hierarchical_data: the skip counter
    data,          \* data[tpg][uarch][isa] -> ArchGroup, keyed by <<tpg, uarch, isa>>
    rows,          \* aggregate_averaged_data: the rows of the DataFrame, by cell
    baseline,      \* assign_normalized_ressources: what find_baseline returned
    order,         \* the cells of data in the order the nested dicts iterate
    filtered_per_uarch,  \* what select_best_isa_per_uarch returned, or None
    filtered_for_all,    \* what select_best_isa_for_all_uarchs returned, or None
    points,        \* plot_pareto_front_ress_lat_projection: the collected points
    pareto_3d,     \* plot_pareto_front_ress_lat_projection: the 3-D mask
    tpg_groups,    \* plot_pareto_front_ress_lat_projection: Pareto points by family
    family_fronts, \* plot_pareto_front_ress_lat_projection: pareto_mask by family
    call,          \* a call of one of the naming functions: its name and argument
    result,        \* what that call returned, or None before it has run
    printed,       \* the lines printed so far (stdout and stderr), oldest first
    nbInstr_json_files  \* import_tpg_nbInstr: the list of executionInfos files

paretoVars == <<costs, is_efficient, row_i>>

buildVars == <<json_files, jf_i, skipped, data, rows>>

selectVars == <<order, filtered_per_uarch, filtered_for_all>>

plotVars == <<points, pareto_3d, tpg_groups, family_fronts>>

callVars == <<call, result>>

logVars == <<printed>>

nbInstrVars == <<nbInstr_json_files>>

vars == <<pc, paretoVars, buildVars, baseline, selectVars, plotVars, callVars, logVars,
          nbInstrVars>>

\* ------------------------------------------------------------------ bounds
MaxRows == 3
MaxCost == 2
MaxFiles == 3
MaxLuts == 2
MaxDsps == 1

\* ---------------------------------------------------------- Python values
\* Optional[...]: None is the empty sequence, a value v is <<v>>.
None == <<>>

Some(v) == <<v>>

\* find_baseline's locals before its loop: baseline_dsps = 0, baseline_luts =
\* 1e20 (found is FALSE while baseline_luts is still 1e20), baseline_regs = 0.
NoBaseline == [found |-> FALSE, dsps |-> 0, luts |-> 0, regs |-> 0]

\* ---------------------------------------------------------------- strings
\* s[i] for a 1-based index.
Char(s, i) == SubSeq(s, i, i)

Digits == {"0", "1", "2", "3", "4", "5", "6", "7", "8", "9"}

\* s[p:].startswith(t), for a 1-based position p.
StartsWithAt(s, p, t) ==
    /\ p >= 1
    /\ p + Len(t) - 1 <= Len(s)
    /\ SubSeq(s, p, p + Len(t) - 1) = t

\* s.endswith(t)
EndsWith(s, t) == Len(t) <= Len(s) /\ SubSeq(s, Len(s) - Len(t) + 1, Len(s)) = t

\* The positions where t occurs in s.
Occurrences(s, t) == {p \in 1..Len(s) : StartsWithAt(s, p, t)}

\* The least element of a non-empty set of integers.
Least(S) == CHOOSE p \in S : \A q \in S : p <= q

\* t in s
Contains(s, t) == Occurrences(s, t) # {}

\* s.replace(old, new): every occurrence, leftmost first, not overlapping.
RECURSIVE Replace(_, _, _)
Replace(s, old, new) ==
    IF Occurrences(s, old) = {} THEN s
    ELSE LET p == Least(Occurrences(s, old))
         IN  SubSeq(s, 1, p - 1) \o new
                \o Replace(SubSeq(s, p + Len(old), Len(s)), old, new)

\* int(s) for a non-empty string of decimal digits.
RECURSIVE ParseInt(_)
ParseInt(s) ==
    LET
        \* The value of one decimal digit.
        DigitValue(c) ==
            CASE c = "0" -> 0 [] c = "1" -> 1 [] c = "2" -> 2 [] c = "3" -> 3 [] c = "4" -> 4
              [] c = "5" -> 5 [] c = "6" -> 6 [] c = "7" -> 7 [] c = "8" -> 8 [] c = "9" -> 9
    IN
    IF Len(s) = 0 THEN 0
    ELSE 10 * ParseInt(SubSeq(s, 1, Len(s) - 1)) + DigitValue(Char(s, Len(s)))

\* Whether s is a non-empty string of decimal digits.
IsDigits(s) == Len(s) >= 1 /\ \A k \in 1..Len(s) : Char(s, k) \in Digits

\* ----------------------------------------------------- canonicalize_tpg_dir
\* TPG_SEED_PATTERN = re.compile(r'_seed-(\d+)_'): the index of the last digit
\* of the longest run of digits that starts at p (p - 1 when there is none).
RECURSIVE DigitRunEnd(_, _)
DigitRunEnd(s, p) ==
    IF p <= Len(s) /\ Char(s, p) \in Digits THEN DigitRunEnd(s, p + 1) ELSE p - 1

\* TPG_SEED_PATTERN matches at p: "_seed-", one or more digits, "_". The digits
\* are the longest run: a shorter run is followed by a digit, never by "_".
SeedMatches(s) ==
    {p \in 1..Len(s) : /\ StartsWithAt(s, p, "_seed-")
                       /\ DigitRunEnd(s, p + 6) >= p + 6
                       /\ StartsWithAt(s, DigitRunEnd(s, p + 6) + 1, "_")}

\* TPG_SEED_PATTERN.sub('_', s): every match, leftmost first, not overlapping.
RECURSIVE SeedSub(_)
SeedSub(s) ==
    IF SeedMatches(s) = {} THEN s
    ELSE LET p == Least(SeedMatches(s))
             e == DigitRunEnd(s, p + 6) + 1
         IN  SubSeq(s, 1, p - 1) \o "_" \o SeedSub(SubSeq(s, e + 1, Len(s)))

\* re.sub(r'_+', '_', s): every run of underscores becomes one underscore.
RECURSIVE CollapseUnderscores(_)
CollapseUnderscores(s) ==
    IF Occurrences(s, "__") = {} THEN s
    ELSE LET p == Least(Occurrences(s, "__"))
         IN  CollapseUnderscores(SubSeq(s, 1, p) \o SubSeq(s, p + 2, Len(s)))

\* s.strip('_')
RECURSIVE StripUnderscores(_)
StripUnderscores(s) ==
    IF Len(s) >= 1 /\ Char(s, 1) = "_" THEN StripUnderscores(SubSeq(s, 2, Len(s)))
    ELSE IF Len(s) >= 1 /\ Char(s, Len(s)) = "_"
         THEN StripUnderscores(SubSeq(s, 1, Len(s) - 1))
    ELSE s

\* The digits of the first match of TPG_SEED_PATTERN: search(...).group(1).
SeedGroup(s) ==
    LET p == Least(SeedMatches(s))
    IN  SubSeq(s, p + 6, DigitRunEnd(s, p + 6))

\* canonicalize_tpg_dir, with a default seed where the code raises: the
\* identifier without a seed token is canonicalized with seed None.
canonicalize_tpg_dir_default(tpg_dir_name) ==
    [raised |-> FALSE,
     key    |-> StripUnderscores(CollapseUnderscores(SeedSub(tpg_dir_name))),
     seed   |-> IF SeedMatches(tpg_dir_name) = {} THEN None
                ELSE Some(ParseInt(SeedGroup(tpg_dir_name)))]

\* canonicalize_tpg_dir without TPG_SEED_PATTERN.sub: the seed token stays in
\* the key.
canonicalize_tpg_dir_keeps_token(tpg_dir_name) ==
    IF SeedMatches(tpg_dir_name) = {}
    THEN [raised |-> TRUE, key |-> "", seed |-> None]
    ELSE [raised |-> FALSE,
          key    |-> StripUnderscores(CollapseUnderscores(tpg_dir_name)),
          seed   |-> Some(ParseInt(SeedGroup(tpg_dir_name)))]

\* canonicalize_tpg_dir: search(...) is None for an identifier without a seed
\* token and .group(1) raises AttributeError; otherwise (new, seed).
canonicalize_tpg_dir(tpg_dir_name) ==
    IF SeedMatches(tpg_dir_name) = {}
    THEN [raised |-> TRUE, key |-> "", seed |-> None]
    ELSE [raised |-> FALSE,
          key    |-> StripUnderscores(CollapseUnderscores(SeedSub(tpg_dir_name))),
          seed   |-> IF SeedGroup(tpg_dir_name) # ""
                     THEN Some(ParseInt(SeedGroup(tpg_dir_name))) ELSE None]

\* ---------------------------------------------------------------- nicknames

reverse_replace_xpulp_extensions(isa) ==
    LET
        \* XPULP_EXT of reverse_replace_xpulp_extensions.
        XPULP_EXT == "_xcvalu_xcvbi_xcvbitmanip_xcvhwlp_xcvmac_xcvmem_xcvsimd"
    IN
    IF Contains(isa, XPULP_EXT) THEN Replace(isa, XPULP_EXT, "_xpulp") ELSE isa

assign_isa_nickname(isa) == Replace(reverse_replace_xpulp_extensions(isa), "_zicsr", "")

\* The substitution rules of assign_simulator_nickname, in the order of the code.
SimulatorRules == <<
    <<"cv32e20", "e2">>, <<"cv32e40", "e4">>, <<"corev_pulp", "pulp">>,
    <<"e4x_im0", "e4x_im0d0">>, <<"e4x_im1", "e4x_im4d2">>, <<"e4x_im2", "e4x_im4d0">>,
    <<"e4x_em0", "e4x_em0d0">>, <<"e4x_em1", "e4x_em4d2">>, <<"e4x_em2", "e4x_em4d0">>,
    <<"e4px", "e4x_im5d2">>,
    <<"e2_im0", "e2_im0d1">>, <<"e2_im1", "e2_im1d1">>, <<"e2_im2", "e2_im2d1">>,
    <<"e2_im3", "e2_im3d1">>,
    <<"e2_em0", "e2_em0d1">>, <<"e2_em1", "e2_em1d1">>, <<"e2_em2", "e2_em2d1">>,
    <<"e2_em3", "e2_em3d1">>,
    <<"px", "">>, <<"x", "">> >>

\* simulator after the rules k, k + 1, ... have been applied in sequence.
RECURSIVE ApplyRules(_, _, _)
ApplyRules(simulator, rules, k) ==
    IF k > Len(rules) THEN simulator
    ELSE ApplyRules(Replace(simulator, rules[k][1], rules[k][2]), rules, k + 1)

\* The rules with the e4x renamings that give the multiplier and no divider
\* suffix: im1 and im2 (em1 and em2) both become im4 (em4).
assign_simulator_nickname_without_div(simulator) ==
    ApplyRules(simulator,
               [k \in DOMAIN SimulatorRules |->
                    IF SimulatorRules[k][1] \in {"e4x_im1", "e4x_im2"}
                    THEN <<SimulatorRules[k][1], "e4x_im4">>
                    ELSE IF SimulatorRules[k][1] \in {"e4x_em1", "e4x_em2"}
                    THEN <<SimulatorRules[k][1], "e4x_em4">>
                    ELSE SimulatorRules[k]],
               1)

assign_simulator_nickname(simulator) == ApplyRules(simulator, SimulatorRules, 1)

\* extract_flag of assign_iset_operator_nickname: 1 when the first
\* "<name>-True" or "<name>-False" of the key is "<name>-True", else 0.
extract_flag(name, tpg_canonical) ==
    LET hits == Occurrences(tpg_canonical, name \o "-True")
                    \cup Occurrences(tpg_canonical, name \o "-False")
    IN  IF hits = {} THEN 0
        ELSE IF StartsWithAt(tpg_canonical, Least(hits), name \o "-True") THEN 1 ELSE 0

\* ",".join(ops)
RECURSIVE Join(_)
Join(ops) ==
    IF Len(ops) = 0 THEN ""
    ELSE IF Len(ops) = 1 THEN ops[1]
    ELSE ops[1] \o "," \o Join(Tail(ops))

\* [x] if cond else []
OpIf(cond, x) == IF cond THEN <<x>> ELSE <<>>

\* assign_iset_operator_nickname with the test of its sibling
\* assign_iset_function_nickname, `if log2_m or zmmul_m` on the matches: the
\* dialect is B as soon as one of the two flags is in the key.
assign_iset_operator_nickname_by_presence(tpg_canonical) ==
    LET log2_m  == extract_flag("useInstrLog2Exp2", tpg_canonical)
        zmmul_m == extract_flag("useInstrZmmul", tpg_canonical)
        trig    == extract_flag("useInstrTrig", tpg_canonical)
        logexp  == extract_flag("useInstrLogExp", tpg_canonical)
        expari  == extract_flag("useInstrExpensiveArithmetic", tpg_canonical)
        is_B    == \/ Contains(tpg_canonical, "useInstrLog2Exp2-True")
                   \/ Contains(tpg_canonical, "useInstrLog2Exp2-False")
                   \/ Contains(tpg_canonical, "useInstrZmmul-True")
                   \/ Contains(tpg_canonical, "useInstrZmmul-False")
    IN  IF is_B
        THEN "{" \o Join(OpIf(log2_m = 1, "log2,exp2") \o OpIf(expari = 1, "*,/")
                            \o OpIf(zmmul_m = 1, "*") \o <<">,-,+">>) \o "}"
        ELSE "{" \o Join(OpIf(trig = 1, "trig") \o OpIf(logexp = 1, "log,exp")
                            \o OpIf(expari = 1, "*,/") \o <<">,-,+">>) \o "}"

assign_iset_operator_nickname(tpg_canonical) ==
    LET log2_m  == extract_flag("useInstrLog2Exp2", tpg_canonical)
        zmmul_m == extract_flag("useInstrZmmul", tpg_canonical)
        trig    == extract_flag("useInstrTrig", tpg_canonical)
        logexp  == extract_flag("useInstrLogExp", tpg_canonical)
        expari  == extract_flag("useInstrExpensiveArithmetic", tpg_canonical)
        is_B    == log2_m = 1 \/ zmmul_m = 1
    IN  IF is_B
        THEN "{" \o Join(OpIf(log2_m = 1, "log2,exp2") \o OpIf(expari = 1, "*,/")
                            \o OpIf(zmmul_m = 1, "*") \o <<">,-,+">>) \o "}"
        ELSE "{" \o Join(OpIf(trig = 1, "trig") \o OpIf(logexp = 1, "log,exp")
                            \o OpIf(expari = 1, "*,/") \o <<">,-,+">>) \o "}"

\* ------------------------------------------------------------ result files
\* A result file is [parents, content]: parents are the names of the
\* directories above it, nearest first (jf.parents[k].name), content is None
\* for a file json.load cannot read, else Some(the JSON object). A JSON
\* latency is [num |-> n], [text |-> s] or [null |-> TRUE].
ResultPath(tpg_dir_name) ==
    <<"results", "inference", tpg_dir_name, "training_results", "tpg_expe">>

Json(simulator, isa, mean, stddev) ==
    [simulator |-> simulator, isa |-> isa, abi |-> "ilp32", dtype |-> "float",
     tpg_mean_latency |-> mean, tpg_stddev_latency |-> stddev]

DirA1 == "t_useInstrTrig-True_seed-1_instrType-float"

DirB1 == "t_useInstrZmmul-True_seed-1_instrType-float"

DirNoSeed == "t_useInstrTrig-True_seed-_instrType-float"

\* The result files the lists are drawn from: seven that are accepted (three
\* of one cell, one of another ISA, one of another TPG and simulator, one of a
\* TPG with the flags of the first and another name, one with latencies below
\* zero) and four that are not (a missing key, latencies that are no numbers,
\* an identifier without a seed token, a path without a TPG directory).
Files ==
    LET
        DirC1 == "u_useInstrTrig-True_seed-1_instrType-float"
        DirA3 == "_t_useInstrTrig-True__seed-3__instrType-float_"
        DirA12 == "t_useInstrTrig-True_seed-12_instrType-float"
        DirA2 == "t_useInstrTrig-True_seed-2_instrType-float"
    IN
         {
    [parents |-> ResultPath(DirA1),
     content |-> Some(Json("cv32e40px", "rv32im_zicsr", [num |-> 10], [num |-> 1]))],
    [parents |-> ResultPath(DirA12),
     content |-> Some(Json("cv32e40px", "rv32im_zicsr", [num |-> 20], [num |-> 3]))],
    [parents |-> ResultPath(DirA3),
     content |-> Some(Json("cv32e40px", "rv32im", [num |-> 20], [num |-> 3]))],
    [parents |-> ResultPath(DirA1),
     content |-> Some(Json("cv32e40px", "rv32imc_zicsr", [num |-> 20], [num |-> 3]))],
    [parents |-> ResultPath(DirB1),
     content |-> Some(Json("cv32e20_em1", "rv32im_zicsr", [text |-> "10"], [text |-> "1"]))],
    [parents |-> ResultPath(DirC1),
     content |-> Some(Json("cv32e40px", "rv32im_zicsr", [num |-> 10], [num |-> 1]))],
    [parents |-> ResultPath(DirB1),
     content |-> Some(Json("cv32e40px", "rv32im", [num |-> -5], [text |-> "-1"]))],
    [parents |-> ResultPath(DirA2),
     content |-> Some([simulator |-> "cv32e40px", isa |-> "rv32im_zicsr", dtype |-> "float",
                       tpg_mean_latency |-> [num |-> 10],
                       tpg_stddev_latency |-> [num |-> 1]])],
    [parents |-> ResultPath(DirA2),
     content |-> Some(Json("cv32e40px", "rv32im_zicsr", [text |-> "n/a"], [null |-> TRUE]))],
    [parents |-> ResultPath(DirNoSeed),
     content |-> Some(Json("cv32e40px", "rv32im_zicsr", [num |-> 10], [num |-> 1]))],
    [parents |-> <<"results", "inference">>,
     content |-> Some(Json("cv32e40px", "rv32im_zicsr", [num |-> 10], [num |-> 1]))] }

\* -------------------------------------------------------- load_json_minimal
required == {"simulator", "isa", "abi", "dtype", "tpg_mean_latency", "tpg_stddev_latency"}

\* A text with a minus sign in front.
IsNegativeText(s) == Len(s) >= 1 /\ Char(s, 1) = "-"

\* float(v) does not raise: a number, or a text of decimal digits with or
\* without a minus sign in front.
Coercible(v) ==
    \/ "num" \in DOMAIN v
    \/ "text" \in DOMAIN v /\ IsDigits(v.text)
    \/ "text" \in DOMAIN v /\ IsNegativeText(v.text) /\ IsDigits(SubSeq(v.text, 2, Len(v.text)))

\* float(v) for a coercible v.
FloatOf(v) ==
    IF "num" \in DOMAIN v THEN v.num
    ELSE IF IsNegativeText(v.text) THEN 0 - ParseInt(SubSeq(v.text, 2, Len(v.text)))
    ELSE ParseInt(v.text)

\* float(v), with 0.0 where float(v) raises.
FloatOrZero(v) == IF Coercible(v) THEN FloatOf(v) ELSE 0

\* The dict load_json_minimal returns when it does not return None.
Minimal(d, mean_val, std_val) ==
    [simulator |-> d.simulator, isa |-> d.isa, abi |-> d.abi, dtype |-> d.dtype,
     tpg_mean_latency |-> mean_val, tpg_stddev_latency |-> std_val]

\* load_json_minimal with the latency coercion's failure swallowed: the
\* record is returned with 0.0 for a latency that is not a number.
load_json_minimal_lenient(file) ==
    IF file.content = None THEN None
    ELSE LET d == file.content[1]
         IN  IF ~(required \subseteq DOMAIN d) THEN None
             ELSE Some(Minimal(d, FloatOrZero(d.tpg_mean_latency),
                                  FloatOrZero(d.tpg_stddev_latency)))

\* load_json_minimal: None for an unreadable file, a missing required key or
\* a latency that float() rejects; else the minimal dict.
load_json_minimal(file) ==
    IF file.content = None THEN None
    ELSE LET d == file.content[1]
         IN  IF ~(required \subseteq DOMAIN d) THEN None
             ELSE IF ~(Coercible(d.tpg_mean_latency) /\ Coercible(d.tpg_stddev_latency))
             THEN None
             ELSE Some(Minimal(d, FloatOf(d.tpg_mean_latency),
                                  FloatOf(d.tpg_stddev_latency)))

\* One printed line: its stream, its fixed text and the values formatted in.
Line(stream, text, args) == [stream |-> stream, text |-> text, args |-> args]

\* jf.parents[2] raises IndexError for a path with fewer than three parents.
HasTpgDir(file) == Len(file.parents) >= 3

\* tpg_dir.name for tpg_dir = jf.parents[2]
TpgDirName(file) == file.parents[3]

\* -------------------------------------------------- build_hierarchical_data
SeedResult(mean, stddev, seed) ==
    [mean |-> mean, stddev |-> stddev, seed |-> seed, avg_nb_instr |-> None,
     avg_nb_evaluated_programs |-> None, avg_nb_evaluated_teams |-> None]

ArchGroup(tpg_canonical, simulator, isa, abi, iset, dtype) ==
    [tpg_canonical |-> tpg_canonical, simulator |-> simulator, isa |-> isa,
     abi |-> abi, iset |-> iset, dtype |-> dtype, seeds |-> <<>>,
     accuracy |-> None, uarch_ressources |-> None, norm_ressource |-> None]

\* The map with d[key] set to group.
Put(d, key, group) ==
    [k \in DOMAIN d \cup {key} |-> IF k = key THEN group ELSE d[k]]

\* The append without `if isa_nickname not in data[...][...]`: the group is
\* created anew for every record.
AppendSeedAlwaysNew(d, key, group, seed_result) ==
    Put(d, key, [group EXCEPT !.seeds = <<seed_result>>])

\* The append that leaves out a SeedResult the cell already holds.
AppendSeedIfNew(d, key, group, seed_result) ==
    LET cell == IF key \in DOMAIN d THEN d[key] ELSE group
    IN  IF \E k \in DOMAIN cell.seeds : cell.seeds[k] = seed_result THEN Put(d, key, cell)
        ELSE Put(d, key, [cell EXCEPT !.seeds = Append(cell.seeds, seed_result)])

\* The append into a map whose first-level key is the instruction-set
\* nickname: data[iset][simulator_nickname][isa_nickname].
AppendSeedByIset(d, key, group, seed_result) ==
    LET by_iset == <<group.iset, key[2], key[3]>>
        cell == IF by_iset \in DOMAIN d THEN d[by_iset] ELSE group
    IN  Put(d, by_iset, [cell EXCEPT !.seeds = Append(cell.seeds, seed_result)])

\* "Initialize group if needed", then seeds.append(seed_result).
AppendSeed(d, key, group, seed_result) ==
    LET cell == IF key \in DOMAIN d THEN d[key] ELSE group
    IN  Put(d, key, [cell EXCEPT !.seeds = Append(cell.seeds, seed_result)])

InitBuild ==
    LET
        FileLists == UNION {[1..n -> Files] : n \in 0..MaxFiles}
    IN
    /\ pc = "build_loop"
    /\ json_files \in FileLists
    /\ jf_i = 1
    /\ skipped = 0
    /\ data = <<>>
    /\ rows = <<>>
    /\ costs = <<>>
    /\ is_efficient = <<>>
    /\ row_i = 1
    /\ baseline = NoBaseline
    /\ order = <<>>
    /\ filtered_per_uarch = None
    /\ filtered_for_all = None
    /\ points = <<>>
    /\ pareto_3d = <<>>
    /\ tpg_groups = <<>>
    /\ family_fronts = <<>>
    /\ call = None
    /\ result = None
    /\ printed = <<>>
    /\ nbInstr_json_files = <<>>

\* The file of the current iteration.
jf == json_files[jf_i]

InLoop == pc = "build_loop" /\ jf_i <= Len(json_files)

\* minimal is None: skipped += 1; continue
BuildSkipLoad ==
    LET
        \* The warning load_json_minimal prints before it returns None.
        load_json_warning(file) ==
            IF file.content = None THEN Line("stderr", "WARNING: Failed to load JSON", <<>>)
            ELSE IF ~(required \subseteq DOMAIN file.content[1])
            THEN Line("stderr", "WARNING: JSON missing required keys",
                      [missing |-> required \ DOMAIN file.content[1]])
            ELSE Line("stderr", "WARNING: Can't parse latency numbers", <<>>)
    IN
    /\ InLoop
    /\ load_json_minimal(jf) = None
    /\ printed' = Append(printed, load_json_warning(jf))
    /\ skipped' = skipped + 1
    /\ jf_i' = jf_i + 1
    /\ UNCHANGED <<pc, json_files, data, rows, paretoVars, baseline, selectVars, plotVars, callVars, nbInstrVars>>

\* jf.parents[2] raises: skipped += 1; continue
BuildSkipPath ==
    /\ InLoop
    /\ load_json_minimal(jf) # None
    /\ ~HasTpgDir(jf)
    /\ printed' = Append(printed, Line("stderr", "WARNING: Unexpected path structure", <<>>))
    /\ skipped' = skipped + 1
    /\ jf_i' = jf_i + 1
    /\ UNCHANGED <<pc, json_files, data, rows, paretoVars, baseline, selectVars, plotVars, callVars, nbInstrVars>>

\* canonicalize_tpg_dir raises: the exception leaves build_hierarchical_data.
BuildRaise ==
    /\ InLoop
    /\ load_json_minimal(jf) # None
    /\ HasTpgDir(jf)
    /\ canonicalize_tpg_dir(TpgDirName(jf)).raised
    /\ pc' = "build_raised"
    /\ UNCHANGED <<json_files, jf_i, skipped, data, rows, paretoVars, baseline, selectVars, plotVars, callVars, logVars, nbInstrVars>>

\* The record is folded into its ArchGroup.
BuildAppend ==
    /\ InLoop
    /\ load_json_minimal(jf) # None
    /\ HasTpgDir(jf)
    /\ ~canonicalize_tpg_dir(TpgDirName(jf)).raised
    /\ LET minimal == load_json_minimal(jf)[1]
           canon == canonicalize_tpg_dir(TpgDirName(jf))
           tpg_canonical == canon.key
           iset == assign_iset_operator_nickname(tpg_canonical)
           simulator_nickname == assign_simulator_nickname(minimal.simulator)
           isa_nickname == assign_isa_nickname(minimal.isa)
       IN  data' = AppendSeed(data,
                       <<tpg_canonical, simulator_nickname, isa_nickname>>,
                       ArchGroup(tpg_canonical, simulator_nickname, isa_nickname,
                                 minimal.abi, iset, minimal.dtype),
                       SeedResult(minimal.tpg_mean_latency,
                                  minimal.tpg_stddev_latency, canon.seed))
    /\ jf_i' = jf_i + 1
    /\ UNCHANGED <<pc, json_files, skipped, rows, paretoVars, baseline, selectVars, plotVars, callVars, logVars, nbInstrVars>>

\* The line printed after the loop, if any.
build_info_always(n) ==
    <<Line("stderr", "INFO: skipped files due to parse errors or unexpected structure",
           [skipped |-> n])>>

\* if skipped: print(f"INFO: skipped {skipped} files due to parse errors or
\* unexpected structure", file=sys.stderr)
build_info(n) ==
    IF n # 0
    THEN <<Line("stderr", "INFO: skipped files due to parse errors or unexpected structure",
                [skipped |-> n])>>
    ELSE <<>>

\* The end of the loop: the INFO line and "return data".
BuildReturn ==
    /\ pc = "build_loop"
    /\ jf_i > Len(json_files)
    /\ printed' = printed \o build_info(skipped)
    /\ pc' = "built"
    /\ UNCHANGED <<buildVars, paretoVars, baseline, selectVars, plotVars, callVars, nbInstrVars>>

\* ------------------------------------------------------ sorted(data.items())
\* The characters of the keys in the order of their code points.
CodePointOrder == "-0123456789ABCDEFGHIJKLMNOPQRSTUVWXYZ_abcdefghijklmnopqrstuvwxyz"

\* The rank of a character's code point among those of CodePointOrder.
CharRank(c) == CHOOSE k \in 1..Len(CodePointOrder) : Char(CodePointOrder, k) = c

\* a < b for two Python strings.
RECURSIVE StrLess(_, _)
StrLess(a, b) ==
    IF Len(b) = 0 THEN FALSE
    ELSE IF Len(a) = 0 THEN TRUE
    ELSE IF Char(a, 1) = Char(b, 1) THEN StrLess(SubSeq(a, 2, Len(a)), SubSeq(b, 2, Len(b)))
    ELSE CharRank(Char(a, 1)) < CharRank(Char(b, 1))

\* The order in which the three nested `sorted(....items())` loops visit the
\* cells: by tpg, then by uarch, then by isa.
KeyLess(k1, k2) ==
    \/ StrLess(k1[1], k2[1])
    \/ k1[1] = k2[1] /\ StrLess(k1[2], k2[2])
    \/ k1[1] = k2[1] /\ k1[2] = k2[2] /\ StrLess(k1[3], k2[3])

RECURSIVE SortedKeys(_)
SortedKeys(keys) ==
    IF keys = {} THEN <<>>
    ELSE LET first == CHOOSE k \in keys : \A o \in keys \ {k} : KeyLess(k, o)
         IN  <<first>> \o SortedKeys(keys \ {first})

\* ------------------------------------------------------------ aggregate_data
\* The rows of the DataFrame of aggregate_data, one per seed of each cell, in
\* the order of the sorted cells.
RECURSIVE SeedRows(_, _, _)
SeedRows(d, keys, k) ==
    IF k > Len(keys) THEN <<>>
    ELSE [j \in DOMAIN d[keys[k]].seeds |->
            [iset |-> d[keys[k]].iset, dtype |-> d[keys[k]].dtype,
             uarch |-> keys[k][2], isa |-> keys[k][3], abi |-> d[keys[k]].abi,
             seed |-> d[keys[k]].seeds[j].seed,
             tpg_mean_latency |-> d[keys[k]].seeds[j].mean,
             tpg_stddev_latency |-> d[keys[k]].seeds[j].stddev]]
         \o SeedRows(d, keys, k + 1)

aggregate_data(d) == SeedRows(d, SortedKeys(DOMAIN d), 1)

\* df = agg.aggregate_data(data), with its warning for an empty DataFrame.
AggregateData ==
    /\ pc = "built"
    /\ printed' = IF Len(aggregate_data(data)) = 0
                  THEN Append(printed,
                          Line("stderr", "WARNING: aggregated DataFrame is empty", <<>>))
                  ELSE printed
    /\ pc' = "aggregate_data_done"
    /\ UNCHANGED <<buildVars, paretoVars, baseline, selectVars, plotVars, callVars, nbInstrVars>>

\* -------------------------------------------------- aggregate_averaged_data
\* sum(xs)
RECURSIVE Sum(_)
Sum(xs) == IF Len(xs) = 0 THEN 0 ELSE Head(xs) + Sum(Tail(xs))

seed_means(group) == [k \in DOMAIN group.seeds |-> group.seeds[k].mean]

seed_stddevs(group) == [k \in DOMAIN group.seeds |-> group.seeds[k].stddev]

\* round(num / den, 2) in hundredths, for den > 0: the nearest hundredth, a
\* tie going to the even one. (Latencies are whole numbers here, so a tie
\* needs a seed count that is a multiple of 8.)
Round2(num, den) ==
    LET h == (200 * num + den) \div (2 * den)
    IN  IF (200 * num + den) % (2 * den) = 0 /\ h % 2 = 1 THEN h - 1 ELSE h

\* The integer square root of a natural number.
Isqrt(n) == CHOOSE r \in 0..n : r * r <= n /\ (r + 1) * (r + 1) > n

\* The commented-out alternative: round(pstdev(seed_means), 2) in hundredths,
\* 0.0 for a single seed.
mean_latency_stddev_pstdev(group) ==
    LET xs == seed_means(group)
        n  == Len(xs)
        sq == Sum([k \in DOMAIN xs |-> xs[k] * xs[k]])
    IN  IF n > 1 THEN (Isqrt(40000 * (n * sq - Sum(xs) * Sum(xs))) + n) \div (2 * n)
        ELSE 0

\* round(float(mean(seed_means)), 2), in hundredths.
mean_latency_avg(group) == Round2(Sum(seed_means(group)), Len(group.seeds))

\* round(float(mean(seed_stddevs)), 2) if seed_stddevs else 0.0, in hundredths.
mean_latency_stddev(group) ==
    IF Len(group.seeds) > 0 THEN Round2(Sum(seed_stddevs(group)), Len(group.seeds))
    ELSE 0

\* The rows of the DataFrame, named by the cell each comes from (the order of
\* the rows, the insertion order of the dicts, is not modelled). A cell
\* without seeds gives no row.
aggregate_averaged_data(d) ==
    [key \in {k \in DOMAIN d : Len(d[k].seeds) > 0} |->
        [iset |-> d[key].iset, dtype |-> d[key].dtype, uarch |-> key[2],
         isa |-> key[3], abi |-> d[key].abi,
         mean_latency_avg |-> mean_latency_avg(d[key]),
         mean_latency_stddev |-> mean_latency_stddev(d[key])]]

\* df_avg = agg.aggregate_averaged_data(data)
AggregateAveraged ==
    /\ pc = "aggregate_data_done"
    /\ rows' = aggregate_averaged_data(data)
    /\ pc' = "aggregated"
    /\ UNCHANGED <<json_files, jf_i, skipped, data, paretoVars, baseline, selectVars, plotVars, callVars, logVars, nbInstrVars>>

\* The end of main: print(f"SUMMARY: TPGs={n_tpgs}, architectures={n_archs},
\* total_rows={len(df)}") for the df of aggregate_data.
MainSummary ==
    LET
        \* The "quick summary" of main for the DataFrame df.
        summary_line(df) ==
            Line("stdout", "SUMMARY",
                 [TPGs |-> Cardinality({df[k].iset : k \in DOMAIN df}),
                  architectures |-> Cardinality({df[k].uarch : k \in DOMAIN df}),
                  total_rows |-> Len(df)])
    IN
    /\ pc = "aggregated"
    /\ printed' = Append(printed, summary_line(aggregate_data(data)))
    /\ pc' = "summary_printed"
    /\ UNCHANGED <<buildVars, paretoVars, baseline, selectVars, plotVars, callVars, nbInstrVars>>

NextBuild ==
    \/ BuildSkipLoad
    \/ BuildSkipPath
    \/ BuildRaise
    \/ BuildAppend
    \/ BuildReturn
    \/ AggregateData
    \/ AggregateAveraged
    \/ MainSummary

SpecBuild == InitBuild /\ [][NextBuild]_vars

\* -------------------------------------------------- import_uarch_ressources
Uarch_Ressources(dsps, regs, luts) == [dsps |-> dsps, regs |-> regs, luts |-> luts]

\* The raw microarchitecture names of the resource table.
RawUarchs == {"cv32e40px", "cv32e20_em1"}

\* The keys of UARCH_CONFIGS_RAW.
UARCH_CONFIGS_RAW ==
    {"cv32e20_im0", "cv32e20_im1", "cv32e20_im2", "cv32e20_im3",
     "cv32e20_em0", "cv32e20_em1", "cv32e20_em2", "cv32e20_em3",
     "cv32e40x_im0", "cv32e40x_im1", "cv32e40x_im2",
     "cv32e40x_em0", "cv32e40x_em1", "cv32e40x_em2",
     "cv32e40px", "cv32e40px_fpu", "cv32e40px_corev_pulp", "cv32e40px_corev_pulp_fpu",
     "cv32e40p", "cv32e40p_corev_pulp"}

\* uarch_nickname = self.assign_simulator_nickname(uarch), for each raw name.
RawNicknames == [u \in UARCH_CONFIGS_RAW |-> assign_simulator_nickname(u)]

\* The resource tables: some of the raw names, each with a record.
ResourceTables ==
    LET
        \* One record of the resource table: each count is a sequence whose first
        \* element is used.
        ResourceRecords ==
            {[DSPs |-> <<d>>, SliceLUTs |-> <<l>>, SliceRegisters |-> <<r>>] :
                d \in 0..MaxDsps, l \in 0..MaxLuts, r \in 0..MaxLuts}
    IN
                  UNION {[names -> ResourceRecords] : names \in SUBSET RawUarchs}

\* tmp of import_uarch_ressources: the table keyed by nickname. (No two raw
\* names of RawUarchs share a nickname, so no entry overwrites another.)
NicknameTable(table) ==
    [nick \in {RawNicknames[u] : u \in DOMAIN table} |->
        table[CHOOSE u \in DOMAIN table : RawNicknames[u] = nick]]

\* The pass with the cells of microarchitectures the table lacks dropped.
import_uarch_ressources_known_only(d, table) ==
    LET tmp == NicknameTable(table)
    IN  [key \in {k \in DOMAIN d : k[2] \in DOMAIN tmp} |->
            [d[key] EXCEPT !.uarch_ressources =
                Some(Uarch_Ressources(tmp[key[2]].DSPs[1],
                                      tmp[key[2]].SliceRegisters[1],
                                      tmp[key[2]].SliceLUTs[1]))]]

import_uarch_ressources(d, table) ==
    LET tmp == NicknameTable(table)
    IN  [key \in DOMAIN d |->
            IF key[2] \in DOMAIN tmp
            THEN [d[key] EXCEPT !.uarch_ressources =
                    Some(Uarch_Ressources(tmp[key[2]].DSPs[1],
                                          tmp[key[2]].SliceRegisters[1],
                                          tmp[key[2]].SliceLUTs[1]))]
            ELSE d[key]]

\* ------------------------------------------------------------ find_baseline
\* The cells that carry a resource profile.
Annotated(d) == {key \in DOMAIN d : d[key].uarch_ressources # None}

\* find_baseline with every count minimised on its own over the annotated cells.
find_baseline_min_each(d) ==
    IF Annotated(d) = {} THEN NoBaseline
    ELSE [found |-> TRUE,
          dsps |-> Least({d[key].uarch_ressources[1].dsps : key \in Annotated(d)}),
          luts |-> Least({d[key].uarch_ressources[1].luts : key \in Annotated(d)}),
          regs |-> Least({d[key].uarch_ressources[1].regs : key \in Annotated(d)})]

\* find_baseline with `<=` in the place of `<`: of the cells with the fewest
\* LUTs the last one in sorted order is returned.
find_baseline_last_lowest(d) ==
    IF Annotated(d) = {} THEN NoBaseline
    ELSE LET keys == SortedKeys(DOMAIN d)
             lowest == {k \in DOMAIN keys :
                          /\ keys[k] \in Annotated(d)
                          /\ \A other \in Annotated(d) :
                                d[keys[k]].uarch_ressources[1].luts
                                    <= d[other].uarch_ressources[1].luts}
             res == d[keys[CHOOSE k \in lowest : \A j \in lowest : j <= k]].uarch_ressources[1]
         IN  [found |-> TRUE, dsps |-> res.dsps, luts |-> res.luts, regs |-> res.regs]

\* The body of find_baseline's loop for one cell: `if res.luts < baseline_luts`
\* (true of every count while baseline_luts is 1e20).
BaselineStep(acc, group) ==
    IF group.uarch_ressources = None THEN acc
    ELSE LET res == group.uarch_ressources[1]
         IN  IF ~acc.found \/ res.luts < acc.luts
             THEN [found |-> TRUE, dsps |-> res.dsps, luts |-> res.luts, regs |-> res.regs]
             ELSE acc

RECURSIVE BaselineLoop(_, _, _, _)
BaselineLoop(d, keys, k, acc) ==
    IF k > Len(keys) THEN acc
    ELSE BaselineLoop(d, keys, k + 1, BaselineStep(acc, d[keys[k]]))

\* find_baseline: (baseline_dsps, baseline_luts, baseline_regs).
find_baseline(d) == BaselineLoop(d, SortedKeys(DOMAIN d), 1, NoBaseline)

\* ------------------------------------------- assign_normalized_ressources
\* Python floats as exact fractions in lowest terms: the weights are
\* multiples of 0.5 and the counts whole numbers, so every sum and product
\* below is exact in binary floating point; the one division is modelled as
\* the exact quotient.
RECURSIVE Gcd(_, _)
Gcd(a, b) == IF b = 0 THEN a ELSE Gcd(b, a % b)

Frac(n, d) == [num |-> n \div Gcd(n, d), den |-> d \div Gcd(n, d)]

Whole(n) == Frac(n, 1)

FAdd(x, y) == Frac(x.num * y.den + y.num * x.den, x.den * y.den)

FMul(x, y) == Frac(x.num * y.num, x.den * y.den)

FDiv(x, y) == Frac(x.num * y.den, x.den * y.num)

\* alpha = 0.5, beta = 0.5
alpha == Frac(1, 2)

beta == Frac(1, 2)

DSP_LUT_EQ == 700

DSP_FF_EQ == 150

\* gamma with DSP_FF_EQ left out (the value its comment keeps, 0).
gamma_lut_only == FMul(alpha, Whole(DSP_LUT_EQ))

\* gamma = alpha * DSP_LUT_EQ + beta * DSP_FF_EQ
gamma == FAdd(FMul(alpha, Whole(DSP_LUT_EQ)), FMul(beta, Whole(DSP_FF_EQ)))

\* alpha * luts + beta * regs + gamma * dsps
Cost(dsps, luts, regs) ==
    FAdd(FAdd(FMul(alpha, Whole(luts)), FMul(beta, Whole(regs))), FMul(gamma, Whole(dsps)))

\* baseline_cost without the DSP term.
baseline_cost_no_dsps(b) == Cost(0, b.luts, b.regs)

\* baseline_cost = (alpha * baseline_luts) + (beta * baseline_regs) + (gamma * baseline_dsps)
baseline_cost(b) == Cost(b.dsps, b.luts, b.regs)

\* The zero check extended to the DSP count: `or baseline_dsps == 0`.
BaselineIsZero_any_count(b) == (b.found /\ b.luts = 0) \/ b.regs = 0 \/ b.dsps = 0

\* if baseline_luts == 0 or baseline_regs == 0 (baseline_luts is 1e20 and
\* baseline_regs is 0 when no cell is annotated).
BaselineIsZero(b) == (b.found /\ b.luts = 0) \/ b.regs = 0

\* How assign_normalized_ressources leaves, with the zero baseline turned
\* into an exception.
NormalizeOutcome_raise_on_zero(b) == [raised |-> BaselineIsZero(b), value |-> None]

\* The normalising loop: 100 * cost / baseline_cost for every annotated cell.
Normalized(d, b) ==
    [key \in DOMAIN d |->
        IF d[key].uarch_ressources # None
        THEN LET res == d[key].uarch_ressources[1]
             IN  [d[key] EXCEPT !.norm_ressource =
                    Some(FDiv(FMul(Whole(100), Cost(res.dsps, res.luts, res.regs)),
                              baseline_cost(b)))]
        ELSE d[key]]

\* ---------------------------------------------------- import_tpg_accuracies

\* One row of accuracies_summary: the group's instrType, the label of its
\* instrSetName and the mean of the variable.
AccuracyRow(instrType, instrSetName, mean) ==
    LET
        \* instrSet_labels of import_tpg_accuracies.
        instrSet_labels ==
            [comp |-> "{*,/,>,-,+}",
             logexp |-> "{log,exp,*,/,>,-,+}",
             trigo |-> "{trig,*,/,>,-,+}",
             complete |-> "{trig,log,exp,*,/,>,-,+}",
             l2e2_compBare |-> "{log2,exp2,>,-,+}",
             l2e2_compZmmul |-> "{log2,exp2,*,>,-,+}",
             l2e2_compExpAr |-> "{log2,exp2,*,/,>,-,+}"]
    IN
    [instrType |-> instrType, instrSet_label |-> instrSet_labels[instrSetName],
     mean |-> mean]

\* "for row in accuracies_summary.itertuples(index=False)" on one ArchGroup:
\* every row whose label and type match assigns, so the last match stays.
RECURSIVE AccuracyLoop(_, _, _)
AccuracyLoop(archgroup, summary, k) ==
    IF k > Len(summary) THEN archgroup
    ELSE AccuracyLoop(
            IF summary[k].instrSet_label \o summary[k].instrType
                    = archgroup.iset \o archgroup.dtype
            THEN [archgroup EXCEPT !.accuracy = Some(summary[k].mean)]
            ELSE archgroup,
            summary, k + 1)

\* csv is None when the file at csv_accuracies_path does not exist (the
\* warning and return), else the rows of accuracies_summary.
import_tpg_accuracies(d, csv) ==
    IF csv = None THEN d
    ELSE [key \in DOMAIN d |-> AccuracyLoop(d[key], csv[1], 1)]

\* ------------------------------------------------- the post-passes of main
\* The cells of the maps the post-passes start from, as the build names them:
\* two TPGs on a microarchitecture of the resource table, one TPG on the
\* other, and one on a microarchitecture the table never has.
NormKey(dir, simulator) ==
    <<canonicalize_tpg_dir(dir).key, assign_simulator_nickname(simulator),
      assign_isa_nickname("rv32im_zicsr")>>

\* A map as build_hierarchical_data leaves it: one ArchGroup with one seed per key.
BuiltMap(keys) ==
    [key \in keys |->
        [ArchGroup(key[1], key[2], key[3], "ilp32",
                   assign_iset_operator_nickname(key[1]), "float")
            EXCEPT !.seeds = <<SeedResult(10, 1, Some(1))>>]]

InitNorm ==
    LET
        NormKeys ==
            {NormKey(DirA1, "cv32e40px"), NormKey(DirA1, "cv32e20_em1"),
             NormKey(DirB1, "cv32e20_em1"), NormKey(DirA1, "cv32e40p")}
    IN
    /\ pc = "accuracies_imported"
    /\ data \in {BuiltMap(keys) : keys \in SUBSET NormKeys \ {{}}}
    /\ baseline = NoBaseline
    /\ json_files = <<>>
    /\ jf_i = 1
    /\ skipped = 0
    /\ rows = <<>>
    /\ costs = <<>>
    /\ is_efficient = <<>>
    /\ row_i = 1
    /\ order = <<>>
    /\ filtered_per_uarch = None
    /\ filtered_for_all = None
    /\ points = <<>>
    /\ pareto_3d = <<>>
    /\ tpg_groups = <<>>
    /\ family_fronts = <<>>
    /\ call = None
    /\ result = None
    /\ printed = <<>>
    /\ nbInstr_json_files = <<>>

\* agg.import_uarch_ressources(data, uarchs_ressources_path)
ImportUarchRessources ==
    /\ pc = "accuracies_imported"
    /\ \E table \in ResourceTables : data' = import_uarch_ressources(data, table)
    /\ pc' = "ressources_imported"
    /\ UNCHANGED <<baseline, json_files, jf_i, skipped, rows, paretoVars, selectVars, plotVars, callVars, logVars, nbInstrVars>>

\* agg.assign_normalized_ressources(data), a zero baseline: the warning and return.
NormalizeAbort ==
    /\ pc = "ressources_imported"
    /\ baseline' = find_baseline(data)
    /\ BaselineIsZero(baseline')
    /\ pc' = "normalize_aborted"
    /\ UNCHANGED <<buildVars, paretoVars, selectVars, plotVars, callVars, logVars, nbInstrVars>>

\* agg.assign_normalized_ressources(data), every annotated cell normalised.
Normalize ==
    /\ pc = "ressources_imported"
    /\ baseline' = find_baseline(data)
    /\ ~BaselineIsZero(baseline')
    /\ data' = Normalized(data, baseline')
    /\ pc' = "normalized"
    /\ UNCHANGED <<json_files, jf_i, skipped, rows, paretoVars, selectVars, plotVars, callVars, logVars, nbInstrVars>>

\* How assign_normalized_ressources leaves: the bare `return` after the
\* warning and the end of the body both return None; nothing is raised.
NormalizeOutcome(b) == [raised |-> FALSE, value |-> None]

\* main after agg.assign_normalized_ressources(data): its next statement,
\* nbInstr_json_files = agg.find_nbInstr_json_files(), unless the call raised.
MainAfterNormalize ==
    /\ pc \in {"normalize_aborted", "normalized"}
    /\ pc' = IF NormalizeOutcome(baseline).raised THEN "main_raised"
             ELSE "find_nbInstr_json_files"
    /\ UNCHANGED <<buildVars, paretoVars, baseline, selectVars, plotVars, callVars, logVars, nbInstrVars>>

NextNorm == ImportUarchRessources \/ NormalizeAbort \/ Normalize \/ MainAfterNormalize

SpecNorm == InitNorm /\ [][NextNorm]_vars

\* ------------------------------------- the three post-passes from the build

\* The subsequence of rows at the chosen positions.
RECURSIVE RowsAt(_, _)
RowsAt(summary, chosen) ==
    IF Len(summary) = 0 THEN <<>>
    ELSE LET rest == RowsAt(SubSeq(summary, 1, Len(summary) - 1), chosen)
         IN  IF Len(summary) \in chosen THEN Append(rest, summary[Len(summary)])
             ELSE rest

\* No CSV file, or a CSV file with some of the rows.
AccuracyCsvs ==
    LET
        \* accuracies_summary of the CSV files: one row per (instrType, instrSetName),
        \* in the order of the groupby (sorted by instrType, then instrSetName).
        AccuracyRows ==
            <<AccuracyRow("double", "trigo", 0), AccuracyRow("float", "comp", 0),
              AccuracyRow("float", "trigo", 1)>>
    IN
    {None} \cup {Some(RowsAt(AccuracyRows, chosen)) : chosen \in SUBSET DOMAIN AccuracyRows}

InitPost ==
    LET
        \* The cells of the maps: one whose instruction set has a label in
        \* instrSet_labels, on a microarchitecture of the resource table and on one the
        \* table never has, and one whose instruction set has no label.
        PostKeys ==
            LET
                DirD1 == "t_useInstrTrig-True_useInstrExpensiveArithmetic-True_seed-1_instrType-float"
            IN
            {NormKey(DirD1, "cv32e40px"), NormKey(DirD1, "cv32e40p"),
             NormKey(DirA1, "cv32e20_em1")}
    IN
    /\ pc = "averaged"
    /\ data \in {BuiltMap(keys) : keys \in SUBSET PostKeys \ {{}}}
    /\ baseline = NoBaseline
    /\ json_files = <<>>
    /\ jf_i = 1
    /\ skipped = 0
    /\ rows = <<>>
    /\ costs = <<>>
    /\ is_efficient = <<>>
    /\ row_i = 1
    /\ order = <<>>
    /\ filtered_per_uarch = None
    /\ filtered_for_all = None
    /\ points = <<>>
    /\ pareto_3d = <<>>
    /\ tpg_groups = <<>>
    /\ family_fronts = <<>>
    /\ call = None
    /\ result = None
    /\ printed = <<>>
    /\ nbInstr_json_files = <<>>

\* agg.import_tpg_accuracies(data, csv_accuracies_path)
ImportTpgAccuracies ==
    /\ pc = "averaged"
    /\ \E csv \in AccuracyCsvs : data' = import_tpg_accuracies(data, csv)
    /\ pc' = "accuracies_imported"
    /\ UNCHANGED <<baseline, json_files, jf_i, skipped, rows, paretoVars, selectVars, plotVars, callVars, logVars, nbInstrVars>>

NextPost == ImportTpgAccuracies \/ ImportUarchRessources \/ NormalizeAbort \/ Normalize

SpecPost == InitPost /\ [][NextPost]_vars

\* ------------------------------------------------------------ Pareto mask
\* The columns of the cost matrix of the per-family front: np.column_stack((res, lat)).
Objectives == {"res", "lat"}

\* The comparison with <= in the place of <.
AnyLower_or_equal(row, c) == \E k \in DOMAIN row : row[k] <= c[k]

\* np.any(costs[j] < c, axis=1) for one row: some objective of row is below c's.
AnyLower(row, c) == \E k \in DOMAIN row : row[k] < c[k]

\* The filter without the statement is_efficient[i] = True after it.
MaskAfter_without_restore(mask, cs, i) ==
    [j \in DOMAIN mask |-> mask[j] /\ (\E k \in DOMAIN cs[j] : cs[j][k] < cs[i][k])]

\* is_efficient[is_efficient] = np.any(costs[is_efficient] < c, axis=1)
\* followed by is_efficient[i] = True.
MaskAfter(mask, cs, i) ==
    [j \in DOMAIN mask |->
        IF j = i THEN TRUE
        ELSE IF mask[j] THEN AnyLower(cs[j], cs[i])
        ELSE FALSE]

\* The loop of is_pareto_efficient from row i on.
RECURSIVE ParetoLoop(_, _, _)
ParetoLoop(mask, cs, i) ==
    IF i > Len(cs) THEN mask
    ELSE ParetoLoop(IF mask[i] THEN MaskAfter(mask, cs, i) ELSE mask, cs, i + 1)

\* is_pareto_efficient(costs), the mask it returns.
is_pareto_efficient(cs) == ParetoLoop([j \in DOMAIN cs |-> TRUE], cs, 1)

InitPareto ==
    LET
        CostMatrices ==
            LET
                CostRows == [Objectives -> 0..MaxCost]
            IN
                        UNION {[1..n -> CostRows] : n \in 0..MaxRows}
    IN
    /\ pc = "pareto_loop"
    /\ costs \in CostMatrices
    /\ is_efficient = [j \in DOMAIN costs |-> TRUE]
    /\ row_i = 1
    /\ json_files = <<>>
    /\ jf_i = 1
    /\ skipped = 0
    /\ data = <<>>
    /\ rows = <<>>
    /\ baseline = NoBaseline
    /\ order = <<>>
    /\ filtered_per_uarch = None
    /\ filtered_for_all = None
    /\ points = <<>>
    /\ pareto_3d = <<>>
    /\ tpg_groups = <<>>
    /\ family_fronts = <<>>
    /\ call = None
    /\ result = None
    /\ printed = <<>>
    /\ nbInstr_json_files = <<>>

\* One iteration of the loop on a row that is still a candidate.
ParetoFilter ==
    /\ pc = "pareto_loop"
    /\ row_i <= Len(costs)
    /\ is_efficient[row_i]
    /\ is_efficient' = MaskAfter(is_efficient, costs, row_i)
    /\ row_i' = row_i + 1
    /\ UNCHANGED <<pc, costs, buildVars, baseline, selectVars, plotVars, callVars, logVars, nbInstrVars>>

\* One iteration of the loop on a row that was removed before its turn.
ParetoSkip ==
    /\ pc = "pareto_loop"
    /\ row_i <= Len(costs)
    /\ ~is_efficient[row_i]
    /\ row_i' = row_i + 1
    /\ UNCHANGED <<pc, costs, is_efficient, buildVars, baseline, selectVars, plotVars, callVars, logVars, nbInstrVars>>

\* return is_efficient
ParetoReturn ==
    /\ pc = "pareto_loop"
    /\ row_i > Len(costs)
    /\ pc' = "pareto_done"
    /\ UNCHANGED <<paretoVars, buildVars, baseline, selectVars, plotVars, callVars, logVars, nbInstrVars>>

NextPareto == ParetoFilter \/ ParetoSkip \/ ParetoReturn

SpecPareto == InitPareto /\ [][NextPareto]_vars

\* ------------------------------------------ the mask of four given points
\* costs = np.column_stack((res, lat)) for one point.
Point(res, lat) == [res |-> res, lat |-> lat]

\* The four points (1,5), (2,3), (3,1), (2,2) in this order.
FourPoints == <<Point(1, 5), Point(2, 3), Point(3, 1), Point(2, 2)>>

InitFourPoints ==
    LET
        \* The four points in every order.
        FourPointsOrders ==
            {[k \in DOMAIN FourPoints |-> FourPoints[perm[k]]] :
                perm \in {f \in [DOMAIN FourPoints -> DOMAIN FourPoints] :
                            \A a, b \in DOMAIN FourPoints : a # b => f[a] # f[b]}}
    IN
    /\ pc = "pareto_loop"
    /\ costs \in FourPointsOrders
    /\ is_efficient = [j \in DOMAIN costs |-> TRUE]
    /\ row_i = 1
    /\ json_files = <<>>
    /\ jf_i = 1
    /\ skipped = 0
    /\ data = <<>>
    /\ rows = <<>>
    /\ baseline = NoBaseline
    /\ order = <<>>
    /\ filtered_per_uarch = None
    /\ filtered_for_all = None
    /\ points = <<>>
    /\ pareto_3d = <<>>
    /\ tpg_groups = <<>>
    /\ family_fronts = <<>>
    /\ call = None
    /\ result = None
    /\ printed = <<>>
    /\ nbInstr_json_files = <<>>

SpecFourPoints == InitFourPoints /\ [][NextPareto]_vars

\* ------------------------------------------------- the best-ISA selections
MaxLat == 2

\* x < y for two floats held as fractions with positive denominators.
FLess(x, y) == x.num * y.den < y.num * x.den

\* mean(seed_means), mean(s.mean for s in archgroup.seeds)
latency_of(group) == Frac(Sum(seed_means(group)), Len(group.seeds))

\* The cells of ord, in order, that are in kept: the iteration order of a
\* filtered dict, whose entries are inserted in the order of the input's.
KeptOrder(ord, kept) ==
    LET Keep(key) == key \in kept
    IN  SelectSeq(ord, Keep)

\* The loop of select_best_isa_per_uarch over the isa_map of one (tpg,
\* uarch): best is None while best_isa is None (best_latency is inf), else
\* Some([isa, latency]). The cells are visited in the order of the dict.
RECURSIVE BestIsaLoop(_, _, _, _, _)
BestIsaLoop(d, ord, k, pair, best) ==
    IF k > Len(ord) THEN best
    ELSE LET key == ord[k]
         IN  IF <<key[1], key[2]>> # pair \/ Len(d[key].seeds) = 0
             THEN BestIsaLoop(d, ord, k + 1, pair, best)
             ELSE IF best = None \/ FLess(latency_of(d[key]), best[1].latency)
             THEN BestIsaLoop(d, ord, k + 1, pair,
                              Some([isa |-> key[3], latency |-> latency_of(d[key])]))
             ELSE BestIsaLoop(d, ord, k + 1, pair, best)

\* The per-family choice with `latency <= best_latency`: of several ISAs
\* with the lowest latency the last one is kept; and with the first ISA kept
\* whatever its latency.
RECURSIVE BestIsaLoopFirst(_, _, _, _, _)
BestIsaLoopFirst(d, ord, k, pair, best) ==
    IF k > Len(ord) THEN best
    ELSE LET key == ord[k]
         IN  IF <<key[1], key[2]>> # pair \/ Len(d[key].seeds) = 0 \/ best # None
             THEN BestIsaLoopFirst(d, ord, k + 1, pair, best)
             ELSE BestIsaLoopFirst(d, ord, k + 1, pair,
                              Some([isa |-> key[3], latency |-> latency_of(d[key])]))

\* select_best_isa_per_uarch keeping the first ISA of every (tpg, uarch).
select_best_isa_per_uarch_first(d, ord) ==
    LET kept == {key \in DOMAIN d :
                    LET best == BestIsaLoopFirst(d, ord, 1, <<key[1], key[2]>>, None)
                    IN  best # None /\ best[1].isa = key[3]}
    IN  [data |-> [key \in kept |-> d[key]], order |-> KeptOrder(ord, kept)]

\* select_best_isa_per_uarch: filtered_data[tpg][uarch] = {best_isa:
\* isa_map[best_isa]} for every (tpg, uarch) whose loop found a best_isa.
select_best_isa_per_uarch(d, ord) ==
    LET kept == {key \in DOMAIN d :
                    LET best == BestIsaLoop(d, ord, 1, <<key[1], key[2]>>, None)
                    IN  best # None /\ best[1].isa = key[3]}
    IN  [data |-> [key \in kept |-> d[key]], order |-> KeptOrder(ord, kept)]

\* Step 1 of select_best_isa_for_all_uarchs: latency_by_uarch_isa as the
\* sequence of its items, [key |-> <<uarch, isa>>, latencies |-> the list], in
\* the order the keys were first seen.
RECURSIVE CollectLatencies(_, _, _, _)
CollectLatencies(d, ord, k, acc) ==
    IF k > Len(ord) THEN acc
    ELSE LET key == ord[k]
             ui == <<key[2], key[3]>>
             at == {i \in DOMAIN acc : acc[i].key = ui}
         IN  IF Len(d[key].seeds) = 0 THEN CollectLatencies(d, ord, k + 1, acc)
             ELSE IF at = {}
             THEN CollectLatencies(d, ord, k + 1,
                    Append(acc, [key |-> ui, latencies |-> <<latency_of(d[key])>>]))
             ELSE CollectLatencies(d, ord, k + 1,
                    [acc EXCEPT ![Least(at)].latencies = Append(@, latency_of(d[key]))])

latency_by_uarch_isa(d, ord) == CollectLatencies(d, ord, 1, <<>>)

\* Step 2, the inner loop over the latencies of one (uarch, isa).
RECURSIVE BestOverLatencies(_, _, _, _, _)
BestOverLatencies(best, uarch, isa, latencies, j) ==
    IF j > Len(latencies) THEN best
    ELSE IF uarch \notin DOMAIN best \/ FLess(latencies[j], best[uarch].latency)
    THEN BestOverLatencies(Put(best, uarch, [isa |-> isa, latency |-> latencies[j]]),
                           uarch, isa, latencies, j + 1)
    ELSE BestOverLatencies(best, uarch, isa, latencies, j + 1)

\* Step 2, the outer loop over the items of latency_by_uarch_isa.
RECURSIVE BestOverItems(_, _, _)
BestOverItems(items, i, best) ==
    IF i > Len(items) THEN best
    ELSE BestOverItems(items, i + 1,
            BestOverLatencies(best, items[i].key[1], items[i].key[2],
                              items[i].latencies, 1))

\* Step 2 with the best ISA taken from the first latency list only.
best_isa_per_uarch_first_seen(d, ord) ==
    LET items == latency_by_uarch_isa(d, ord)
        firsts == {i \in DOMAIN items :
                    \A j \in DOMAIN items : items[j].key[1] = items[i].key[1] => i <= j}
    IN  [uarch \in {items[i].key[1] : i \in firsts} |->
            LET i == CHOOSE i \in firsts : items[i].key[1] = uarch
            IN  [isa |-> items[i].key[2], latency |-> items[i].latencies[1]]]

\* best_isa_per_uarch: uarch -> (isa, latency).
best_isa_per_uarch(d, ord) == BestOverItems(latency_by_uarch_isa(d, ord), 1, <<>>)

\* select_best_isa_for_all_uarchs with the choice made per tpg.
select_best_isa_for_all_uarchs_per_tpg(d, ord) == select_best_isa_per_uarch(d, ord)

\* Step 3 with a family that has no cell of the uarch's best ISA keeping its
\* own cells of that uarch.
select_best_isa_for_all_uarchs_or_own(d, ord) ==
    LET best == best_isa_per_uarch(d, ord)
        kept == {key \in DOMAIN d :
                    /\ key[2] \in DOMAIN best
                    /\ \/ best[key[2]].isa = key[3]
                       \/ <<key[1], key[2], best[key[2]].isa>> \notin DOMAIN d}
    IN  [data |-> [key \in kept |-> d[key]], order |-> KeptOrder(ord, kept)]

\* select_best_isa_for_all_uarchs: step 3 keeps, for every tpg and uarch, the
\* cell of the uarch's best ISA when the tpg has one.
select_best_isa_for_all_uarchs(d, ord) ==
    LET best == best_isa_per_uarch(d, ord)
        kept == {key \in DOMAIN d :
                    key[2] \in DOMAIN best /\ best[key[2]].isa = key[3]}
    IN  [data |-> [key \in kept |-> d[key]], order |-> KeptOrder(ord, kept)]

\* The cells of the maps the selections are applied to: two TPGs with two
\* ISAs each on one microarchitecture, and one TPG on another.
SelectKey(dir, simulator, isa) ==
    <<canonicalize_tpg_dir(dir).key, assign_simulator_nickname(simulator),
      assign_isa_nickname(isa)>>

\* The orders in which the nested dicts can iterate the cells: the cells of
\* one tpg are together, and within them the cells of one uarch.
NestedOrders(keys) ==
    {o \in [1..Cardinality(keys) -> keys] :
        /\ \A i, j \in DOMAIN o : i # j => o[i] # o[j]
        /\ \A i, j, k \in DOMAIN o :
            (i < j /\ j < k) =>
                /\ o[i][1] = o[k][1] => o[j][1] = o[i][1]
                /\ (o[i][1] = o[k][1] /\ o[i][2] = o[k][2]) => o[j][2] = o[i][2]}

\* A map as build_hierarchical_data leaves it, with the given seeds per cell.
BuiltMapWithSeeds(seeds) ==
    [key \in DOMAIN seeds |->
        [ArchGroup(key[1], key[2], key[3], "ilp32",
                   assign_iset_operator_nickname(key[1]), "float")
            EXCEPT !.seeds = seeds[key]]]

InitSelect ==
    LET
        \* The seeds of a cell: one seed of any mean latency, or two seeds of means 1 and 2.
        SeedLists ==
            {<<SeedResult(m, 1, Some(1))>> : m \in 1..MaxLat}
                \cup {<<SeedResult(1, 1, Some(1)), SeedResult(2, 1, Some(2))>>}
        SelectKeys ==
            {SelectKey(DirA1, "cv32e40px", "rv32im_zicsr"),
             SelectKey(DirA1, "cv32e40px", "rv32imc_zicsr"),
             SelectKey(DirB1, "cv32e40px", "rv32im_zicsr"),
             SelectKey(DirB1, "cv32e40px", "rv32imc_zicsr"),
             SelectKey(DirA1, "cv32e20_em1", "rv32im_zicsr")}
    IN
    /\ pc = "select"
    /\ \E keys \in SUBSET SelectKeys \ {{}} :
        /\ order \in NestedOrders(keys)
        /\ data \in {BuiltMapWithSeeds(seeds) : seeds \in [keys -> SeedLists]}
    /\ filtered_per_uarch = None
    /\ filtered_for_all = None
    /\ baseline = NoBaseline
    /\ json_files = <<>>
    /\ jf_i = 1
    /\ skipped = 0
    /\ rows = <<>>
    /\ costs = <<>>
    /\ is_efficient = <<>>
    /\ row_i = 1
    /\ points = <<>>
    /\ pareto_3d = <<>>
    /\ tpg_groups = <<>>
    /\ family_fronts = <<>>
    /\ call = None
    /\ result = None
    /\ printed = <<>>
    /\ nbInstr_json_files = <<>>

\* filtered_data = select_best_isa_per_uarch(data)
SelectBestIsaPerUarch ==
    /\ pc = "select"
    /\ filtered_per_uarch = None
    /\ filtered_per_uarch' = Some(select_best_isa_per_uarch(data, order))
    /\ UNCHANGED <<pc, paretoVars, buildVars, baseline, order, filtered_for_all, plotVars, callVars, logVars, nbInstrVars>>

\* filtered_data = select_best_isa_for_all_uarchs(data)
SelectBestIsaForAllUarchs ==
    /\ pc = "select"
    /\ filtered_for_all = None
    /\ filtered_for_all' = Some(select_best_isa_for_all_uarchs(data, order))
    /\ UNCHANGED <<pc, paretoVars, buildVars, baseline, order, filtered_per_uarch, plotVars, callVars, logVars, nbInstrVars>>

NextSelect == SelectBestIsaPerUarch \/ SelectBestIsaForAllUarchs

SpecSelect == InitSelect /\ [][NextSelect]_vars

\* ------------------------------- plot_pareto_front_ress_lat_projection

\* The collection loop: one point per cell, in sorted order, that has an
\* accuracy, a normalized cost and seeds.
RECURSIVE CollectPoints(_, _, _, _)
CollectPoints(d, keys, k, acc) ==
    LET
        \* A float that holds a whole number, as that number (the accuracies, the
        \* single-seed latencies and the normalized costs of InitPlot are whole).
        Number(x) == x.num \div x.den
    IN
    IF k > Len(keys) THEN acc
    ELSE LET archgroup == d[keys[k]]
         IN  IF /\ archgroup.accuracy # None
                /\ archgroup.norm_ressource # None
                /\ Len(archgroup.seeds) > 0
             THEN CollectPoints(d, keys, k + 1,
                    Append(acc, [dist |-> archgroup.accuracy[1],
                                 lat  |-> Number(latency_of(archgroup)),
                                 res  |-> Number(archgroup.norm_ressource[1]),
                                 meta |-> [uarch |-> keys[k][2], iset |-> archgroup.iset,
                                           dtype |-> archgroup.dtype,
                                           accuracy |-> archgroup.accuracy[1]]]))
             ELSE CollectPoints(d, keys, k + 1, acc)

\* The points of the chosen indices grouped by (iset, dtype), each group in
\* the order of the points; n is the index of the point in the collection
\* (the code's tuples are (res, lat, meta)).
GroupBy(pts, chosen) ==
    [family \in {<<pts[n].meta.iset, pts[n].meta.dtype>> : n \in chosen} |->
        LET InFamily(n) ==
                n \in chosen /\ <<pts[n].meta.iset, pts[n].meta.dtype>> = family
            ns == SelectSeq([n \in DOMAIN pts |-> n], InFamily)
        IN  [k \in DOMAIN ns |->
                [res |-> pts[ns[k]].res, lat |-> pts[ns[k]].lat,
                 meta |-> pts[ns[k]].meta, n |-> ns[k]]]]

\* The groups taken over all the collected points, on the 3-D front or not.
tpg_groups_of_all_points(pts, mask) == GroupBy(pts, DOMAIN pts)

\* pareto_mask of every family that is not skipped by `if len(pts) < 2`.
family_fronts_of(groups) ==
    LET
        \* np.column_stack((res, lat)) of one family's points.
        Costs2d(pts) == [k \in DOMAIN pts |-> <<pts[k].res, pts[k].lat>>]
    IN
    [family \in {f \in DOMAIN groups : Len(groups[f]) >= 2} |->
        is_pareto_efficient(Costs2d(groups[family]))]

\* A record of the resource table with n LUTs, n registers and no DSP.
PlotRecord(n) == [DSPs |-> <<0>>, SliceLUTs |-> <<n>>, SliceRegisters |-> <<n>>]

\* Those maps, for four or five of the cells and each resource table.
NormalizedMaps ==
    LET
        \* The map after the passes of main that come before the plot, but for the
        \* seeds and the accuracies: built, with the resource profiles and the
        \* normalized costs.
        NormalizedMap(keys, table) ==
            LET annotated == import_uarch_ressources(BuiltMap(keys), table)
            IN  Normalized(annotated, find_baseline(annotated))
        \* The resource tables of the plotted maps: normalized costs 100, 200 and
        \* 300, or 100 for every microarchitecture.
        PlotTables ==
            {("cv32e40px" :> PlotRecord(1)) @@ ("cv32e20_em1" :> PlotRecord(2))
                @@ ("cv32e40x_em0" :> PlotRecord(3)),
             ("cv32e40px" :> PlotRecord(1)) @@ ("cv32e20_em1" :> PlotRecord(1))
                @@ ("cv32e40x_em0" :> PlotRecord(1))}
        \* The cells of the maps that are plotted: one TPG on three
        \* microarchitectures, another on one of them with two ISAs.
        PlotKeys ==
            {SelectKey(DirA1, "cv32e40px", "rv32im_zicsr"),
             SelectKey(DirA1, "cv32e20_em1", "rv32im_zicsr"),
             SelectKey(DirA1, "cv32e40x_em0", "rv32im_zicsr"),
             SelectKey(DirB1, "cv32e20_em1", "rv32im_zicsr"),
             SelectKey(DirB1, "cv32e20_em1", "rv32imc_zicsr")}
    IN
    {NormalizedMap(keys, table) :
        keys \in {ks \in SUBSET PlotKeys : Cardinality(ks) >= 4}, table \in PlotTables}

InitPlot ==
    LET
        \* The seeds of the build (one per cell) and the accuracies of
        \* import_tpg_accuracies (one per (iset, dtype)) in that map.
        PlottedMap(normalized, lats, accuracies) ==
            [key \in DOMAIN normalized |->
                [normalized[key] EXCEPT !.seeds = <<SeedResult(lats[key], 1, Some(1))>>,
                                        !.accuracy = Some(accuracies[key[1]])]]
    IN
    /\ pc = "plot_prefilter"
    /\ \E normalized \in NormalizedMaps :
        /\ order = SortedKeys(DOMAIN normalized)
        /\ data \in {PlottedMap(normalized, lats, accuracies) :
                        lats \in [DOMAIN normalized -> 0..MaxLat],
                        accuracies \in [{key[1] : key \in DOMAIN normalized} -> 0..1]}
    /\ filtered_per_uarch = None
    /\ filtered_for_all = None
    /\ baseline = NoBaseline
    /\ json_files = <<>>
    /\ jf_i = 1
    /\ skipped = 0
    /\ rows = <<>>
    /\ costs = <<>>
    /\ is_efficient = <<>>
    /\ row_i = 1
    /\ points = <<>>
    /\ pareto_3d = <<>>
    /\ tpg_groups = <<>>
    /\ family_fronts = <<>>
    /\ call = None
    /\ result = None
    /\ printed = <<>>
    /\ nbInstr_json_files = <<>>

\* data = self.select_best_isa_for_all_uarchs(data)
PlotPrefilter ==
    /\ pc = "plot_prefilter"
    /\ data' = select_best_isa_for_all_uarchs(data, order).data
    /\ order' = select_best_isa_for_all_uarchs(data, order).order
    /\ pc' = "plot_collect"
    /\ UNCHANGED <<json_files, jf_i, skipped, rows, paretoVars, baseline,
                   filtered_per_uarch, filtered_for_all, plotVars, callVars, logVars, nbInstrVars>>

\* "Collect data": dists, latencies, ressources and points_meta.
PlotCollect ==
    /\ pc = "plot_collect"
    /\ points' = CollectPoints(data, SortedKeys(DOMAIN data), 1, <<>>)
    /\ pc' = "plot_pareto_3d"
    /\ UNCHANGED <<buildVars, paretoVars, baseline, selectVars,
                   pareto_3d, tpg_groups, family_fronts, callVars, logVars, nbInstrVars>>

\* pareto_3d = self.is_pareto_efficient(np.column_stack((Xd, Yl, Zr)))
PlotPareto3d ==
    LET
        \* np.column_stack((Xd, Yl, Zr))
        Costs3d(pts) == [n \in DOMAIN pts |-> <<pts[n].dist, pts[n].lat, pts[n].res>>]
    IN
    /\ pc = "plot_pareto_3d"
    /\ pareto_3d' = is_pareto_efficient(Costs3d(points))
    /\ pc' = "plot_families"
    /\ UNCHANGED <<buildVars, paretoVars, baseline, selectVars,
                   points, tpg_groups, family_fronts, callVars, logVars, nbInstrVars>>

\* tpg_groups: the points of zip(pareto_res, pareto_lat, pareto_meta), those
\* of the 3-D front, by family.
tpg_groups_of(pts, mask) == GroupBy(pts, {n \in DOMAIN pts : mask[n]})

\* "Group Pareto points by TPG family" and the loop over tpg_groups.items()
\* that computes each family's pareto_mask.
PlotFamilyFronts ==
    /\ pc = "plot_families"
    /\ tpg_groups' = tpg_groups_of(points, pareto_3d)
    /\ family_fronts' = family_fronts_of(tpg_groups')
    /\ pc' = "plot_drawn"
    /\ UNCHANGED <<buildVars, paretoVars, baseline, selectVars, points, pareto_3d, callVars, logVars, nbInstrVars>>

NextPlot == PlotPrefilter \/ PlotCollect \/ PlotPareto3d \/ PlotFamilyFronts

SpecPlot == InitPlot /\ [][NextPlot]_vars

\* ------------------------------------------------------- is_c_extension
\* is_c_extension with the trailing "c" tested before the "c_" infix.
is_c_extension_suffix_first(isa1, isa2) ==
    IF EndsWith(isa1, "c") /\ ~EndsWith(isa2, "c") THEN <<isa2, isa1>>
    ELSE IF EndsWith(isa2, "c") /\ ~EndsWith(isa1, "c") THEN <<isa1, isa2>>
    ELSE IF Contains(isa1, "c_") /\ ~Contains(isa2, "c_") THEN <<isa2, isa1>>
    ELSE <<isa1, isa2>>

\* is_c_extension(isa1, isa2): (no_c_isa, with_c_isa).
is_c_extension(isa1, isa2) ==
    IF Contains(isa1, "c_") /\ ~Contains(isa2, "c_") THEN <<isa2, isa1>>
    ELSE IF Contains(isa2, "c_") /\ ~Contains(isa1, "c_") THEN <<isa1, isa2>>
    ELSE IF EndsWith(isa1, "c") /\ ~EndsWith(isa2, "c") THEN <<isa2, isa1>>
    ELSE IF EndsWith(isa2, "c") /\ ~EndsWith(isa1, "c") THEN <<isa1, isa2>>
    ELSE <<isa1, isa2>>

\* ------------------------------------------- calls of the naming functions
MaxPieces == 3

\* The concatenation of a sequence of strings.
RECURSIVE Concat(_)
Concat(ps) == IF Len(ps) = 0 THEN "" ELSE Head(ps) \o Concat(Tail(ps))

\* The flags of a canonical key, and how each can stand in it: absent, True
\* or False.
FlagNames == <<"useInstrTrig", "useInstrLogExp", "useInstrExpensiveArithmetic",
               "useInstrLog2Exp2", "useInstrZmmul">>

Calls ==
    LET
        \* The ISA nicknames is_c_extension is called with.
        IsaNames == {"rv32im", "rv32imc", "rv32im_xpulp", "rv32imc_xpulp", "rv32imf",
                     "rv32imfc", "rv32imc_zfinx", "rv32e"}
        FlagKeys ==
            LET
                \* The canonical key with the given value of each flag.
                FlagKey(values) ==
                    "t" \o Concat([k \in DOMAIN FlagNames |->
                                    IF values[k] = "" THEN ""
                                    ELSE "_" \o FlagNames[k] \o "-" \o values[k]])
                        \o "_instrType-float"
                FlagValues == {"", "True", "False"}
            IN
                    {FlagKey(values) : values \in [DOMAIN FlagNames -> FlagValues]}
        \* The identifiers canonicalize_tpg_dir is called with: up to MaxPieces pieces.
        Identifiers ==
            LET
                \* The pieces identifiers are made of: a seed token, the start of another
                \* that shares its underscore, single and double underscores, a letter.
                Pieces == {"t", "_", "__", "_seed-2_", "t_seed-1"}
            IN
                       {Concat(ps) : ps \in UNION {[1..n -> Pieces] : n \in 1..MaxPieces}}
    IN
    {[fn |-> "canonicalize_tpg_dir", args |-> <<id>>] : id \in Identifiers}
        \cup {[fn |-> "assign_iset_operator_nickname", args |-> <<key>>] : key \in FlagKeys}
        \cup {[fn |-> "is_c_extension", args |-> <<isa1, isa2>>] :
                    isa1 \in IsaNames, isa2 \in IsaNames}

InitCalls ==
    /\ pc = "call"
    /\ call \in Calls
    /\ result = None
    /\ printed = <<>>
    /\ nbInstr_json_files = <<>>
    /\ order = <<>>
    /\ data = <<>>
    /\ filtered_per_uarch = None
    /\ filtered_for_all = None
    /\ baseline = NoBaseline
    /\ json_files = <<>>
    /\ jf_i = 1
    /\ skipped = 0
    /\ rows = <<>>
    /\ costs = <<>>
    /\ is_efficient = <<>>
    /\ row_i = 1
    /\ points = <<>>
    /\ pareto_3d = <<>>
    /\ tpg_groups = <<>>
    /\ family_fronts = <<>>

\* tpg_canonical, seed = self.canonicalize_tpg_dir(tpg_dir_name)
CallCanonicalize ==
    /\ pc = "call"
    /\ call.fn = "canonicalize_tpg_dir"
    /\ result' = Some(canonicalize_tpg_dir(call.args[1]))
    /\ pc' = IF canonicalize_tpg_dir(call.args[1]).raised THEN "raised" ELSE "returned"
    /\ UNCHANGED <<call, paretoVars, buildVars, baseline, selectVars, plotVars, logVars, nbInstrVars>>

\* iset = self.assign_iset_operator_nickname(tpg_canonical)
CallIsetNickname ==
    /\ pc = "call"
    /\ call.fn = "assign_iset_operator_nickname"
    /\ result' = Some(assign_iset_operator_nickname(call.args[1]))
    /\ pc' = "returned"
    /\ UNCHANGED <<call, paretoVars, buildVars, baseline, selectVars, plotVars, logVars, nbInstrVars>>

\* no_c_isa, with_c_isa = self.is_c_extension(isa_list[0], isa_list[1])
CallIsCExtension ==
    /\ pc = "call"
    /\ call.fn = "is_c_extension"
    /\ result' = Some(is_c_extension(call.args[1], call.args[2]))
    /\ pc' = "returned"
    /\ UNCHANGED <<call, paretoVars, buildVars, baseline, selectVars, plotVars, logVars, nbInstrVars>>

NextCalls == CallCanonicalize \/ CallIsetNickname \/ CallIsCExtension

SpecCalls == InitCalls /\ [][NextCalls]_vars

\* ------------------------------- the nicknames of the configuration table
\* The simulators of two records of the build.
InitNicknames ==
    /\ pc = "call"
    /\ call \in {[fn |-> "assign_simulator_nickname", args |-> <<u1, u2>>] :
                    u1 \in UARCH_CONFIGS_RAW, u2 \in UARCH_CONFIGS_RAW}
    /\ result = None
    /\ costs = <<>>
    /\ is_efficient = <<>>
    /\ row_i = 1
    /\ json_files = <<>>
    /\ jf_i = 1
    /\ skipped = 0
    /\ data = <<>>
    /\ rows = <<>>
    /\ baseline = NoBaseline
    /\ order = <<>>
    /\ filtered_per_uarch = None
    /\ filtered_for_all = None
    /\ points = <<>>
    /\ pareto_3d = <<>>
    /\ tpg_groups = <<>>
    /\ family_fronts = <<>>
    /\ printed = <<>>
    /\ nbInstr_json_files = <<>>

\* simulator_nickname = self.assign_simulator_nickname(simulator), for each
\* of the two records.
CallSimulatorNickname ==
    /\ pc = "call"
    /\ call.fn = "assign_simulator_nickname"
    /\ result' = Some(<<assign_simulator_nickname(call.args[1]),
                        assign_simulator_nickname(call.args[2])>>)
    /\ pc' = "returned"
    /\ UNCHANGED <<call, paretoVars, buildVars, baseline, selectVars, plotVars, logVars, nbInstrVars>>

NextNicknames == CallSimulatorNickname

SpecNicknames == InitNicknames /\ [][NextNicknames]_vars

\* ------------------------------------------------------- import_tpg_nbInstr
MaxInfos == 2

\* An executionInfos file is [parents, infos]: parents as for a result file
\* (root/training_results/<tpg_dir>/outLogs/precalcul/executionInfos.json),
\* infos what parse_tpgInfos returns for it: None when the file has no trace
\* group, else Some of the three averages.
InfosPath(tpg_dir_name) == <<"precalcul", "outLogs", tpg_dir_name, "training_results">>

Averages(avg_nb_instr, avg_nb_evaluated_programs, avg_nb_evaluated_teams) ==
    [avg_nb_instr |-> avg_nb_instr,
     avg_nb_evaluated_programs |-> avg_nb_evaluated_programs,
     avg_nb_evaluated_teams |-> avg_nb_evaluated_teams]

DirA0 == "t_useInstrTrig-True_seed-0_instrType-float"

DirB0 == "t_useInstrZmmul-True_seed-0_instrType-float"

\* The executionInfos files the lists are drawn from, each with averages of
\* its own: two seeds of one TPG, one seed of another TPG, a directory without
\* a seed token and a file without trace groups.
InfosFiles == {
    [parents |-> InfosPath(DirA0), infos |-> Some(Averages(10, 1, 1))],
    [parents |-> InfosPath(DirA1), infos |-> Some(Averages(11, 1, 1))],
    [parents |-> InfosPath(DirB0), infos |-> Some(Averages(20, 2, 2))],
    [parents |-> InfosPath(DirNoSeed), infos |-> Some(Averages(30, 3, 3))],
    [parents |-> InfosPath(DirB1), infos |-> None] }

\* (tpg, seed) = self.canonicalize_tpg_dir(tpg_dir_name), for each file.
InfosCanon == [file \in InfosFiles |-> canonicalize_tpg_dir(TpgDirName(file))]

\* The third loop, over the cells in the order of the nested dicts, from the
\* k-th cell on: the condition archgroup.tpg_canonical == tpg compares the
\* cell with the key it is stored under (the loop variable tpg, which has
\* replaced the tpg of the first loop); seeds[seed] raises IndexError for a
\* list of at most `seed` elements, with the cells before it already written.
RECURSIVE AttachLoop(_, _, _, _, _)
AttachLoop(d, ord, k, seed, avgs) ==
    IF k > Len(ord) THEN [raised |-> FALSE, data |-> d]
    ELSE IF d[ord[k]].tpg_canonical # ord[k][1] THEN AttachLoop(d, ord, k + 1, seed, avgs)
    ELSE IF seed + 1 > Len(d[ord[k]].seeds) THEN [raised |-> TRUE, data |-> d]
    ELSE \* the three assignments to archgroup.seeds[seed] (a list index from 0)
         AttachLoop([d EXCEPT
                        ![ord[k]].seeds[seed + 1].avg_nb_instr =
                            Some(avgs.avg_nb_instr),
                        ![ord[k]].seeds[seed + 1].avg_nb_evaluated_programs =
                            Some(avgs.avg_nb_evaluated_programs),
                        ![ord[k]].seeds[seed + 1].avg_nb_evaluated_teams =
                            Some(avgs.avg_nb_evaluated_teams)],
                    ord, k + 1, seed, avgs)

\* import_tpg_nbInstr: the first loop raises for a directory without a seed
\* token; the second for a file of which parse_tpgInfos returns None (it
\* cannot be unpacked); the third uses the seed of the last file of the
\* first loop and the averages of the last file of the second, names that
\* are unbound (NameError) for an empty list.
import_tpg_nbInstr(d, ord, files) ==
    IF \E n \in DOMAIN files : InfosCanon[files[n]].raised
    THEN [raised |-> TRUE, data |-> d]
    ELSE IF \E n \in DOMAIN files : files[n].infos = None
    THEN [raised |-> TRUE, data |-> d]
    ELSE IF Len(ord) = 0 THEN [raised |-> FALSE, data |-> d]
    ELSE IF Len(files) = 0 THEN [raised |-> TRUE, data |-> d]
    ELSE AttachLoop(d, ord, 1, InfosCanon[files[Len(files)]].seed[1],
                    files[Len(files)].infos[1])

InitInfos ==
    LET
        \* The seeds of a cell, in the order the build met them.
        InfosSeedLists ==
            {<<SeedResult(1, 1, Some(0))>>, <<SeedResult(1, 1, Some(1))>>,
             <<SeedResult(1, 1, Some(0)), SeedResult(2, 1, Some(1))>>,
             <<SeedResult(2, 1, Some(1)), SeedResult(1, 1, Some(0))>>}
        \* The cells of the maps: one TPG on two microarchitectures and another TPG.
        InfosKeys ==
            {SelectKey(DirA0, "cv32e40px", "rv32im_zicsr"),
             SelectKey(DirA0, "cv32e20_em1", "rv32im_zicsr"),
             SelectKey(DirB0, "cv32e40px", "rv32im_zicsr")}
        InfosFileLists == UNION {[1..n -> InfosFiles] : n \in 0..MaxInfos}
    IN
    /\ pc = "import_tpg_nbInstr"
    /\ \E keys \in SUBSET InfosKeys \ {{}} :
        /\ order \in NestedOrders(keys)
        /\ data \in {BuiltMapWithSeeds(seeds) : seeds \in [keys -> InfosSeedLists]}
    /\ nbInstr_json_files \in InfosFileLists
    /\ baseline = NoBaseline
    /\ json_files = <<>>
    /\ jf_i = 1
    /\ skipped = 0
    /\ rows = <<>>
    /\ costs = <<>>
    /\ is_efficient = <<>>
    /\ row_i = 1
    /\ filtered_per_uarch = None
    /\ filtered_for_all = None
    /\ points = <<>>
    /\ pareto_3d = <<>>
    /\ tpg_groups = <<>>
    /\ family_fronts = <<>>
    /\ call = None
    /\ result = None
    /\ printed = <<>>

\* agg.import_tpg_nbInstr(data, nbInstr_json_files)
ImportTpgNbInstr ==
    /\ pc = "import_tpg_nbInstr"
    /\ data' = import_tpg_nbInstr(data, order, nbInstr_json_files).data
    /\ pc' = IF import_tpg_nbInstr(data, order, nbInstr_json_files).raised
             THEN "import_tpg_nbInstr_raised" ELSE "nbInstr_imported"
    /\ UNCHANGED <<json_files, jf_i, skipped, rows, paretoVars, baseline, selectVars,
                   plotVars, callVars, logVars, nbInstrVars>>

NextInfos == ImportTpgNbInstr

SpecInfos == InitInfos /\ [][NextInfos]_vars

\* ------------------------------------------- claims on the Pareto mask
\* Row a is strictly lower than row b in every objective.
StrictlyLowerAll(a, b) == \A k \in Objectives : a[k] < b[k]

\* C1: when is_pareto_efficient returns, row i is marked efficient if and
\* only if no other row is strictly lower than row i in every objective.
C1_StrictDominanceMask ==
    pc = "pareto_done" =>
        \A i \in DOMAIN costs :
            is_efficient[i] <=>
                ~(\E j \in DOMAIN costs : j # i /\ StrictlyLowerAll(costs[j], costs[i]))

\* C2: when is_pareto_efficient returns, two rows with equal objective
\* vectors have the same mask value, and both are marked efficient when no
\* third row is strictly lower than them in every objective.
C2_EqualRowsBothKept ==
    pc = "pareto_done" =>
        \A i, j \in DOMAIN costs :
            (i # j /\ costs[i] = costs[j]) =>
                /\ is_efficient[i] = is_efficient[j]
                /\ (~(\E t \in DOMAIN costs : StrictlyLowerAll(costs[t], costs[i]))
                        => (is_efficient[i] /\ is_efficient[j]))

\* ----------------------------------------------- claims on the build (C3-C7)
\* The files the loop has gone past.
Processed == 1..(jf_i - 1)

\* What the build derives from each file of Files, computed once: whether it
\* is folded into the map (it loads, has a TPG directory and its identifier has
\* a seed token) and, if so, its minimal record, the canonicalization of its
\* identifier and its (family key, microarchitecture nickname, ISA nickname).
Derived(file) ==
    IF /\ load_json_minimal(file) # None
       /\ HasTpgDir(file)
       /\ SeedMatches(TpgDirName(file)) # {}
    THEN LET minimal == load_json_minimal(file)[1]
             canon == canonicalize_tpg_dir(TpgDirName(file))
         IN  [accepted |-> TRUE, minimal |-> minimal, canon |-> canon,
              iset |-> assign_iset_operator_nickname(canon.key),
              triple |-> <<canon.key, assign_simulator_nickname(minimal.simulator),
                           assign_isa_nickname(minimal.isa)>>]
    ELSE [accepted |-> FALSE]

DerivedTable == {<<file, Derived(file)>> : file \in Files}

DerivedOf(file) == (CHOOSE pair \in DerivedTable : pair[1] = file)[2]

Accepted(file) == DerivedOf(file).accepted

MinimalOf(file) == DerivedOf(file).minimal

CanonOf(file) == DerivedOf(file).canon

TripleOf(file) == DerivedOf(file).triple

IsetOf(file) == DerivedOf(file).iset

\* The processed, accepted files of one triple.
FilesOf(triple) ==
    {k \in Processed : Accepted(json_files[k]) /\ TripleOf(json_files[k]) = triple}

Identity(group) == <<group.tpg_canonical, group.simulator, group.isa>>

Abs(x) == IF x < 0 THEN -x ELSE x

\* h hundredths is a nearest hundredth of total / n.
NearestHundredth(h, total, n) == 2 * Abs(h * n - 100 * total) <= n

\* The seeds of a group as <<mean, stddev>> pairs.
MeanStd(group) == [k \in DOMAIN group.seeds |-> <<group.seeds[k].mean, group.seeds[k].stddev>>]

C4_OneGroupPerTriple ==
    /\ \A k1, k2 \in DOMAIN data :
            Identity(data[k1]) = Identity(data[k2]) => k1 = k2
    /\ \A key \in DOMAIN data : Identity(data[key]) = key
    /\ DOMAIN data = {TripleOf(json_files[k]) : k \in {j \in Processed : Accepted(json_files[j])}}
    /\ \A key \in DOMAIN data :
        /\ Len(data[key].seeds) = Cardinality(FilesOf(key))
        /\ \A k \in FilesOf(key) :
            \E n \in DOMAIN data[key].seeds :
                /\ data[key].seeds[n].mean = MinimalOf(json_files[k]).tpg_mean_latency
                /\ data[key].seeds[n].seed = CanonOf(json_files[k]).seed

\* C4 witness: the build has returned a map of two cells, one of which merged
\* records with different raw ISA strings and different identifiers.
C4_Witness ==
    /\ pc = "built"
    /\ Cardinality(DOMAIN data) = 2
    /\ \E key \in DOMAIN data :
        \E a, b \in FilesOf(key) :
            /\ MinimalOf(json_files[a]).isa # MinimalOf(json_files[b]).isa
            /\ TpgDirName(json_files[a]) # TpgDirName(json_files[b])

\* The identifier's only seed token: its position, and the index of its closing "_".
TokenStart(s) == Least(SeedMatches(s))

TokenEnd(s) == DigitRunEnd(s, TokenStart(s) + 6) + 1

\* Two identifiers, each with one seed token, that are identical except for
\* the digits inside the token.
DiffersOnlyInSeedDigits(a, b) ==
    /\ Cardinality(SeedMatches(a)) = 1
    /\ Cardinality(SeedMatches(b)) = 1
    /\ a # b
    /\ SubSeq(a, 1, TokenStart(a) + 5) = SubSeq(b, 1, TokenStart(b) + 5)
    /\ SubSeq(a, TokenEnd(a), Len(a)) = SubSeq(b, TokenEnd(b), Len(b))

\* The digits inside the identifier's seed token.
TokenDigits(s) == SubSeq(s, TokenStart(s) + 6, TokenEnd(s) - 1)

\* C5: two processed records whose identifiers differ only in the digits of
\* their seed token get the same canonical key, each with its own seed
\* integer, and, when simulator and ISA are the same, their SeedResults are
\* in the same ArchGroup.
C5_SeedsCollapse ==
    \A a, b \in Processed :
        LET fa == json_files[a]
            fb == json_files[b]
        IN  (/\ Accepted(fa) /\ Accepted(fb)
             /\ DiffersOnlyInSeedDigits(TpgDirName(fa), TpgDirName(fb))) =>
                LET ca == CanonOf(fa)
                    cb == CanonOf(fb)
                IN  /\ ca.key = cb.key
                    /\ ca.seed = Some(ParseInt(TokenDigits(TpgDirName(fa))))
                    /\ cb.seed = Some(ParseInt(TokenDigits(TpgDirName(fb))))
                    /\ (/\ MinimalOf(fa).simulator = MinimalOf(fb).simulator
                        /\ MinimalOf(fa).isa = MinimalOf(fb).isa) =>
                            \E key \in DOMAIN data :
                                /\ key[1] = ca.key
                                /\ \E m, n \in DOMAIN data[key].seeds :
                                    /\ m # n
                                    /\ data[key].seeds[m].seed = ca.seed
                                    /\ data[key].seeds[n].seed = cb.seed

\* C5 witness: the build has returned after records of seeds 1 and 12 of one
\* configuration, simulator and ISA.
C5_Witness ==
    /\ pc = "built"
    /\ \E a, b \in Processed :
        /\ Accepted(json_files[a]) /\ Accepted(json_files[b])
        /\ DiffersOnlyInSeedDigits(TpgDirName(json_files[a]), TpgDirName(json_files[b]))
        /\ TokenDigits(TpgDirName(json_files[a])) = "1"
        /\ TokenDigits(TpgDirName(json_files[b])) = "12"
        /\ MinimalOf(json_files[a]).isa = MinimalOf(json_files[b]).isa

\* A readable record that lacks a required key, or whose latency fields are
\* not numbers.
Rejected(file) ==
    /\ file.content # None
    /\ \/ \E key \in required : key \notin DOMAIN file.content[1]
       \/ ~Coercible(file.content[1].tpg_mean_latency)
       \/ ~Coercible(file.content[1].tpg_stddev_latency)

\* C6: the step of the build on a record that lacks a required key or whose
\* latencies are not numbers adds one to the skip counter, leaves the map
\* unchanged and goes on with the next record of the list.
C6_RejectedIsSkipped ==
    [][(InLoop /\ Rejected(jf)) =>
            /\ skipped' = skipped + 1
            /\ data' = data
            /\ pc' = "build_loop"
            /\ jf_i' = jf_i + 1
            /\ json_files' = json_files]_vars

\* C6 witness: the build has returned a non-empty map although a rejected
\* record came before an accepted one.
C6_Witness ==
    /\ pc = "built"
    /\ skipped >= 1
    /\ \E a, b \in Processed :
        /\ a < b
        /\ Rejected(json_files[a])
        /\ Accepted(json_files[b])
        /\ TripleOf(json_files[b]) \in DOMAIN data

\* C7: canonicalize_tpg_dir raises for every identifier without a seed token;
\* the build never goes past a loaded record with such an identifier, it
\* raises at it, and every SeedResult of the map carries the seed integer of
\* a processed identifier, never None.
C7_NoSeedTokenRaises ==
    /\ \A file \in Files :
            (HasTpgDir(file) /\ SeedMatches(TpgDirName(file)) = {}) =>
                canonicalize_tpg_dir(TpgDirName(file)).raised
    /\ \A k \in Processed :
            (load_json_minimal(json_files[k]) # None /\ HasTpgDir(json_files[k])) =>
                SeedMatches(TpgDirName(json_files[k])) # {}
    /\ pc = "build_raised" => SeedMatches(TpgDirName(jf)) = {}
    /\ \A key \in DOMAIN data :
        \A n \in DOMAIN data[key].seeds :
            /\ data[key].seeds[n].seed # None
            /\ \E k \in Processed :
                /\ Accepted(json_files[k])
                /\ data[key].seeds[n].seed
                        = Some(ParseInt(TokenDigits(TpgDirName(json_files[k]))))

\* C7 witness: the build raised at an identifier without a seed token after
\* it had folded a record into the map.
C7_Witness ==
    /\ pc = "build_raised"
    /\ SeedMatches(TpgDirName(jf)) = {}
    /\ DOMAIN data # {}

\* -------------------------------------- claims on the normalisation (C8-C10)
\* assign_normalized_ressources has called find_baseline.
BaselineKnown == pc \in {"normalized", "normalize_aborted"}

\* The resource profile of an annotated cell.
Res(key) == data[key].uarch_ressources[1]

\* C8: when some ArchGroup carries a resource profile, find_baseline returns
\* the DSP, LUT and register counts of one annotated cell, and no annotated
\* cell has fewer LUTs than that cell.
C8_BaselineIsOneCell ==
    (BaselineKnown /\ Annotated(data) # {}) =>
        /\ baseline.found
        /\ \E key \in Annotated(data) :
            /\ Res(key).dsps = baseline.dsps
            /\ Res(key).luts = baseline.luts
            /\ Res(key).regs = baseline.regs
            /\ \A other \in Annotated(data) : Res(key).luts <= Res(other).luts

\* C8 witness: find_baseline has returned the triple of the cell with the
\* fewest LUTs although another annotated cell has fewer DSPs and fewer
\* registers.
C8_Witness ==
    /\ BaselineKnown
    /\ baseline.found
    /\ \E other \in Annotated(data) :
        /\ Res(other).dsps < baseline.dsps
        /\ Res(other).regs < baseline.regs
        /\ Res(other).luts > baseline.luts

\* C9: after assign_normalized_ressources has completed without aborting,
\* every cell whose resource triple is the baseline's has normalized cost
\* exactly 100.
C9_BaselineCostIs100 ==
    pc = "normalized" =>
        /\ \E key \in Annotated(data) :
                <<Res(key).dsps, Res(key).luts, Res(key).regs>>
                    = <<baseline.dsps, baseline.luts, baseline.regs>>
        /\ \A key \in Annotated(data) :
            (<<Res(key).dsps, Res(key).luts, Res(key).regs>>
                    = <<baseline.dsps, baseline.luts, baseline.regs>>) =>
                data[key].norm_ressource = Some([num |-> 100, den |-> 1])

\* C9 witness: normalisation completed with a baseline that has a DSP while
\* some other annotated cell has a different, larger normalized cost.
C9_Witness ==
    /\ pc = "normalized"
    /\ baseline.dsps > 0
    /\ \E key \in Annotated(data) :
        data[key].norm_ressource[1].num > 100 * data[key].norm_ressource[1].den

\* C10: after assign_normalized_ressources has completed without aborting,
\* every annotated cell holds 100 * (0.5 lut + 0.5 reg + 425 dsp) /
\* (0.5 Blut + 0.5 Breg + 425 Bdsp) for the baseline (Bdsp, Blut, Breg), both
\* costs written here in halves, and every other cell holds None.
C10_NormalizedCostFormula ==
    pc = "normalized" =>
        \A key \in DOMAIN data :
            IF key \in Annotated(data)
            THEN /\ data[key].norm_ressource # None
                 /\ data[key].norm_ressource[1].den > 0
                 /\ data[key].norm_ressource[1].num
                        * (baseline.luts + baseline.regs + 850 * baseline.dsps)
                    = data[key].norm_ressource[1].den
                        * 100 * (Res(key).luts + Res(key).regs + 850 * Res(key).dsps)
            ELSE data[key].norm_ressource = None

\* C10 witness: normalisation completed on a map with a cell that has a DSP
\* and is not the baseline, and a cell without a resource profile.
C10_Witness ==
    /\ pc = "normalized"
    /\ \E key \in Annotated(data) :
        /\ Res(key).dsps > 0
        /\ data[key].norm_ressource # Some([num |-> 100, den |-> 1])
    /\ \E key \in DOMAIN data : key \notin Annotated(data)

\* ------------------------------- claims on the zero baseline (C11, C12)
\* The baseline's LUT count or register count is zero (find_baseline returns
\* zero registers when no cell is annotated).
ZeroLutsOrRegs(b) == (b.found /\ b.luts = 0) \/ b.regs = 0

\* C11: the step of assign_normalized_ressources on a baseline whose LUT or
\* register count is zero aborts and leaves every cell of the map as it was;
\* on a baseline with zero DSPs but non-zero LUT and register counts it does
\* not abort and every annotated cell gets a normalized cost.
C11_ZeroBaselineAborts ==
    [][pc = "ressources_imported" =>
            /\ ZeroLutsOrRegs(baseline') =>
                    /\ pc' = "normalize_aborted"
                    /\ data' = data
                    /\ \A key \in DOMAIN data' : data'[key].norm_ressource = None
            /\ (/\ baseline'.found /\ baseline'.dsps = 0
                /\ baseline'.luts > 0 /\ baseline'.regs > 0) =>
                    /\ pc' = "normalized"
                    /\ \A key \in Annotated(data') : data'[key].norm_ressource # None]_vars

\* C11 witness: the pass aborted on a baseline with LUTs but no registers
\* while another annotated cell has registers.
C11_Witness ==
    /\ pc = "normalize_aborted"
    /\ baseline.found
    /\ baseline.luts > 0
    /\ baseline.regs = 0
    /\ \E key \in Annotated(data) : Res(key).regs > 0

\* C12 as stated: the caller never goes on to its next statement after a
\* normalization pass whose baseline had a zero LUT or register count.
C12_DegeneracyPropagates ==
    pc = "find_nbInstr_json_files" => ~ZeroLutsOrRegs(baseline)

\* C12 as amended: a normalization pass that aborted on a zero LUT or
\* register count returns normally, as a completed pass does: the caller goes
\* on to its next statement and the map is as it was, every norm_ressource None.
C12_DegeneracyReturnsNormally ==
    [][pc = "normalize_aborted" =>
            /\ ZeroLutsOrRegs(baseline)
            /\ pc' = "find_nbInstr_json_files"
            /\ data' = data
            /\ \A key \in DOMAIN data' : data'[key].norm_ressource = None]_vars

\* C12 witness: main is at its next statement after a pass that aborted on an
\* annotated baseline.
C12_Witness ==
    /\ pc = "find_nbInstr_json_files"
    /\ baseline.found
    /\ ZeroLutsOrRegs(baseline)
    /\ Annotated(data) # {}

\* ------------------------------ claims on the best-ISA selections (C14-C16)
\* The mean of the per-seed means of g1 is at most, or below, that of g2.
MeanLeq(g1, g2) ==
    Sum(seed_means(g1)) * Len(g2.seeds) <= Sum(seed_means(g2)) * Len(g1.seeds)

MeanBelow(g1, g2) ==
    Sum(seed_means(g1)) * Len(g2.seeds) < Sum(seed_means(g2)) * Len(g1.seeds)

\* The cells of one family on one microarchitecture, and of one
\* microarchitecture over all families, that have seed results.
CellsOfPair(tpg, uarch) ==
    {key \in DOMAIN data : key[1] = tpg /\ key[2] = uarch /\ Len(data[key].seeds) > 0}

CellsOfUarch(uarch) ==
    {key \in DOMAIN data : key[2] = uarch /\ Len(data[key].seeds) > 0}

\* C14: the result of select_best_isa_per_uarch holds cells of the map,
\* unchanged, and for every (family, microarchitecture) pair with a cell that
\* has seed results exactly one of the pair's cells, whose mean latency is at
\* most that of every cell of the pair; nothing else is in the result.
C14_BestIsaPerFamily ==
    filtered_per_uarch # None =>
        LET kept == filtered_per_uarch[1].data
        IN  /\ DOMAIN kept \subseteq DOMAIN data
            /\ \A key \in DOMAIN kept : kept[key] = data[key]
            /\ \A key \in DOMAIN data :
                LET pair == CellsOfPair(key[1], key[2])
                IN  pair # {} =>
                        /\ Cardinality(pair \cap DOMAIN kept) = 1
                        /\ \A best \in pair \cap DOMAIN kept :
                            \A other \in pair : MeanLeq(data[best], data[other])
            /\ \A key \in DOMAIN kept : key \in CellsOfPair(key[1], key[2])

\* C14 witness: the selection dropped the ISA that comes first in a pair's
\* dict for a later one of lower latency, and kept the only cell of another
\* pair.
C14_Witness ==
    /\ filtered_per_uarch # None
    /\ \E i, j \in DOMAIN order :
        /\ i < j
        /\ order[i][1] = order[j][1] /\ order[i][2] = order[j][2]
        /\ order[i] \notin DOMAIN filtered_per_uarch[1].data
        /\ order[j] \in DOMAIN filtered_per_uarch[1].data
    /\ \E key \in DOMAIN filtered_per_uarch[1].data :
        CellsOfPair(key[1], key[2]) = {key}

\* C15: in the result of select_best_isa_for_all_uarchs, for every
\* microarchitecture with a cell that has seed results there is one ISA, that
\* of a cell whose mean latency is at most that of every cell of the
\* microarchitecture over all families, such that the result holds, unchanged,
\* exactly the cells of that microarchitecture with that ISA: a family keeps
\* its cell of that ISA or nothing.
C15_BestIsaOverAllFamilies ==
    filtered_for_all # None =>
        LET kept == filtered_for_all[1].data
        IN  /\ DOMAIN kept \subseteq DOMAIN data
            /\ \A key \in DOMAIN kept : kept[key] = data[key]
            /\ \A key \in DOMAIN data :
                CellsOfUarch(key[2]) # {} =>
                    \E best \in CellsOfUarch(key[2]) :
                        /\ \A other \in CellsOfUarch(key[2]) :
                                MeanLeq(data[best], data[other])
                        /\ {k \in DOMAIN kept : k[2] = key[2]}
                                = {k \in DOMAIN data : k[2] = key[2] /\ k[3] = best[3]}

\* C15 witness: two families keep the same ISA on a microarchitecture although
\* one of them is faster with another ISA, which it loses.
C15_Witness ==
    /\ filtered_for_all # None
    /\ \E k1, k2 \in DOMAIN filtered_for_all[1].data :
        /\ k1[1] # k2[1] /\ k1[2] = k2[2] /\ k1[3] = k2[3]
        /\ \E lost \in CellsOfPair(k1[1], k1[2]) :
            /\ MeanBelow(data[lost], data[k1])
            /\ lost \notin DOMAIN filtered_for_all[1].data

\* The ISAs of lowest mean latency of one family on one microarchitecture.
LowestIsas(tpg, uarch) ==
    {key[3] : key \in {best \in CellsOfPair(tpg, uarch) :
                \A other \in CellsOfPair(tpg, uarch) : MeanLeq(data[best], data[other])}}

\* Two families of one microarchitecture have different lowest-latency ISAs:
\* no ISA is a lowest-latency ISA of both.
BestIsaVariesByFamily ==
    \E k1, k2 \in DOMAIN data :
        /\ k1[1] # k2[1] /\ k1[2] = k2[2]
        /\ LowestIsas(k1[1], k1[2]) \cap LowestIsas(k2[1], k2[2]) = {}

\* C16: for a map in which, on some microarchitecture, two families have
\* different lowest-latency ISAs, the result of select_best_isa_per_uarch is
\* not the result of select_best_isa_for_all_uarchs.
C16_SelectionsDiffer ==
    (filtered_per_uarch # None /\ filtered_for_all # None /\ BestIsaVariesByFamily) =>
        filtered_per_uarch[1].data # filtered_for_all[1].data

\* C16 witness: both selections were applied to a map in which the best ISA
\* varies by family, and the global one kept a cell the per-family one dropped.
C16_Witness ==
    /\ filtered_per_uarch # None
    /\ filtered_for_all # None
    /\ BestIsaVariesByFamily
    /\ \E key \in DOMAIN filtered_for_all[1].data :
            key \notin DOMAIN filtered_per_uarch[1].data

\* ---------------------------------- claims on the per-family fronts (C13)
\* The collected points of one family, as indices of `points`.
FamilyPoints(family) ==
    {n \in DOMAIN points : <<points[n].meta.iset, points[n].meta.dtype>> = family}

\* The collected points that the plot puts on the 2-D front of their family.
OnFamilyFront ==
    UNION {{tpg_groups[family][k].n :
                k \in {j \in DOMAIN tpg_groups[family] : family_fronts[family][j]}} :
            family \in DOMAIN family_fronts}

\* The points of a family that the Pareto mask keeps when it is computed, in
\* (resource, latency), over the points of chosen.
Front2d(chosen) ==
    LET InChosen(n) == n \in chosen
        ns == SelectSeq([n \in DOMAIN points |-> n], InChosen)
        mask == is_pareto_efficient([k \in DOMAIN ns |->
                                        <<points[ns[k]].res, points[ns[k]].lat>>])
    IN  {ns[k] : k \in {j \in DOMAIN ns : mask[j]}}

\* C13 as stated: the front of every family with two or more collected
\* points is the 2-D front of all the points of that family, whether they
\* are on the global 3-D front or not.
C13_FamilyFrontOverAllPoints ==
    pc = "plot_drawn" =>
        \A n \in DOMAIN points :
            LET family == <<points[n].meta.iset, points[n].meta.dtype>>
            IN  Cardinality(FamilyPoints(family)) >= 2 =>
                    (n \in OnFamilyFront <=> n \in Front2d(FamilyPoints(family)))

\* C13 as amended: the front of a family is computed over the points of the
\* family that are on the global 3-D front, when there are two or more of
\* them, so every point of a per-family front is on the global front.
C13_FamilyFrontWithinGlobalFront ==
    pc = "plot_drawn" =>
        /\ \A n \in OnFamilyFront : pareto_3d[n]
        /\ \A n \in DOMAIN points :
            LET family == <<points[n].meta.iset, points[n].meta.dtype>>
                onGlobal == {m \in FamilyPoints(family) : pareto_3d[m]}
            IN  n \in OnFamilyFront <=>
                    (Cardinality(onGlobal) >= 2 /\ n \in Front2d(onGlobal))

\* C13 witness: a point that is on the 2-D front of all the points of its
\* family is neither on the global front nor on the family front the plot
\* draws, which has two other points of the family.
C13_Witness ==
    /\ pc = "plot_drawn"
    /\ \E n \in DOMAIN points :
        LET family == <<points[n].meta.iset, points[n].meta.dtype>>
        IN  /\ n \in Front2d(FamilyPoints(family))
            /\ ~pareto_3d[n]
            /\ n \notin OnFamilyFront
            /\ Cardinality(OnFamilyFront \cap FamilyPoints(family)) >= 2

\* ------------------------------------ claims on the instruction-set nickname
\* The flag is in the key, with either value; with the value True.
HasFlag(key, name) ==
    \E p \in 1..Len(key) :
        StartsWithAt(key, p, name \o "-True") \/ StartsWithAt(key, p, name \o "-False")

FlagIsTrue(key, name) == \E p \in 1..Len(key) : StartsWithAt(key, p, name \o "-True")

\* s followed by a comma when the flag is True, else nothing.
Listed(key, name, s) == IF FlagIsTrue(key, name) THEN s \o "," ELSE ""

\* The nickname of each dialect for a key.
DialectA(key) ==
    "{" \o Listed(key, "useInstrTrig", "trig") \o Listed(key, "useInstrLogExp", "log,exp")
        \o Listed(key, "useInstrExpensiveArithmetic", "*,/") \o ">,-,+}"

DialectB(key) ==
    "{" \o Listed(key, "useInstrLog2Exp2", "log2,exp2")
        \o Listed(key, "useInstrExpensiveArithmetic", "*,/")
        \o Listed(key, "useInstrZmmul", "*") \o ">,-,+}"

IsetCallReturned == call # None /\ call.fn = "assign_iset_operator_nickname" /\ result # None

\* C17 as stated: assign_iset_operator_nickname returns the dialect B
\* nickname whenever the key has a useInstrLog2Exp2 or a useInstrZmmul flag,
\* True or False, and the dialect A nickname only when it has neither.
C17_DialectByPresence ==
    IsetCallReturned =>
        result[1] = IF \/ HasFlag(call.args[1], "useInstrLog2Exp2")
                       \/ HasFlag(call.args[1], "useInstrZmmul")
                    THEN DialectB(call.args[1])
                    ELSE DialectA(call.args[1])

\* C17 as amended: assign_iset_operator_nickname returns the dialect B
\* nickname exactly when the useInstrLog2Exp2 flag or the useInstrZmmul flag
\* of the key is True; a key where both are absent or False gets the
\* dialect A nickname.
C17_DialectByTrueFlag ==
    IsetCallReturned =>
        result[1] = IF \/ FlagIsTrue(call.args[1], "useInstrLog2Exp2")
                       \/ FlagIsTrue(call.args[1], "useInstrZmmul")
                    THEN DialectB(call.args[1])
                    ELSE DialectA(call.args[1])

\* C17 witness: a key with useInstrTrig-True and a useInstrZmmul-False flag
\* got the dialect A nickname with trig in it.
C17_Witness ==
    /\ IsetCallReturned
    /\ FlagIsTrue(call.args[1], "useInstrTrig")
    /\ HasFlag(call.args[1], "useInstrZmmul")
    /\ ~FlagIsTrue(call.args[1], "useInstrZmmul")
    /\ ~HasFlag(call.args[1], "useInstrLog2Exp2")
    /\ result[1] = "{trig,>,-,+}"

\* ---------------------------------------------- claims on is_c_extension
\* The ISA nickname has the `c_` infix; ends with `c`.
HasCInfix(isa) == \E p \in 1..(Len(isa) - 1) : SubSeq(isa, p, p + 1) = "c_"

HasCSuffix(isa) == Len(isa) >= 1 /\ SubSeq(isa, Len(isa), Len(isa)) = "c"

\* (base, compressed) by the rules in order: the infix, then the suffix, then
\* the pair as given.
SplitByRules(a, b) ==
    IF HasCInfix(a) # HasCInfix(b) THEN (IF HasCInfix(a) THEN <<b, a>> ELSE <<a, b>>)
    ELSE IF HasCSuffix(a) # HasCSuffix(b) THEN (IF HasCSuffix(a) THEN <<b, a>> ELSE <<a, b>>)
    ELSE <<a, b>>

\* C19: is_c_extension(a, b) returns (base, compressed) where the compressed
\* one is the only one with the `c_` infix, else the only one that ends with
\* `c`, else the pair is returned as given; when one of the two heuristics
\* tells the two apart, the call with the arguments swapped returns the same
\* pair.
C19_CompressedSplit ==
    (call # None /\ call.fn = "is_c_extension" /\ result # None) =>
        LET a == call.args[1]
            b == call.args[2]
        IN  /\ result[1] = SplitByRules(a, b)
            /\ (HasCInfix(a) # HasCInfix(b) \/ HasCSuffix(a) # HasCSuffix(b)) =>
                    is_c_extension(b, a) = result[1]
            /\ (HasCInfix(a) = HasCInfix(b) /\ HasCSuffix(a) = HasCSuffix(b)) =>
                    result[1] = <<a, b>>

\* C19 witness: the first argument has the infix and no trailing `c`, the
\* second a trailing `c` and no infix: the infix decides, the first argument
\* is the compressed one.
C19_Witness ==
    /\ call # None /\ call.fn = "is_c_extension" /\ result # None
    /\ HasCInfix(call.args[1]) /\ ~HasCSuffix(call.args[1])
    /\ ~HasCInfix(call.args[2]) /\ HasCSuffix(call.args[2])
    /\ result[1] = <<call.args[2], call.args[1]>>

\* ---------------------------------------- claims on the canonical key (C20)
\* The seed-token removal, underscore collapse and trim, applied to a string.
RemoveCollapseTrim(s) == StripUnderscores(CollapseUnderscores(SeedSub(s)))

\* The string has the seed token `_seed-<digits>_` somewhere.
HasSeedToken(s) ==
    \E p \in 1..Len(s) :
        \E e \in (p + 7)..Len(s) :
            /\ SubSeq(s, p, p + 5) = "_seed-"
            /\ IsDigits(SubSeq(s, p + 6, e - 1))
            /\ SubSeq(s, e, e) = "_"

\* C20: the canonical key canonicalize_tpg_dir returns is a fixed point of
\* the removal, collapse and trim: it has no seed token left, no two
\* underscores in a row and no underscore at either end.
C20_CanonicalKeyIsFixedPoint ==
    (call # None /\ call.fn = "canonicalize_tpg_dir" /\ pc = "returned") =>
        LET key == result[1].key
        IN  /\ RemoveCollapseTrim(key) = key
            /\ ~HasSeedToken(key)
            /\ \A p \in 1..(Len(key) - 1) : SubSeq(key, p, p + 1) # "__"
            /\ (Len(key) >= 1 =>
                    SubSeq(key, 1, 1) # "_" /\ SubSeq(key, Len(key), Len(key)) # "_")

\* ------------------------------------------ claims on the family key (C18)
\* Two processed, accepted records with the same instruction-set nickname,
\* microarchitecture nickname and ISA nickname but different canonical keys.
SameNicknamesOtherKey(a, b) ==
    /\ Accepted(json_files[a]) /\ Accepted(json_files[b])
    /\ IsetOf(json_files[a]) = IsetOf(json_files[b])
    /\ TripleOf(json_files[a])[2] = TripleOf(json_files[b])[2]
    /\ TripleOf(json_files[a])[3] = TripleOf(json_files[b])[3]
    /\ CanonOf(json_files[a]).key # CanonOf(json_files[b]).key

\* C18 as stated: the map has at most one ArchGroup per (instruction-set
\* nickname, microarchitecture nickname, ISA nickname): records with the same
\* three nicknames are in the same ArchGroup.
C18_FamilyKeyIsIsetNickname ==
    \A k1, k2 \in DOMAIN data :
        (/\ data[k1].iset = data[k2].iset
         /\ data[k1].simulator = data[k2].simulator
         /\ data[k1].isa = data[k2].isa) => k1 = k2

\* C18 as amended: the first-level key of the map is the canonical key. Two
\* accepted records with the same three nicknames and different canonical
\* keys are in different ArchGroups, each under its own canonical key, each
\* with the common nickname in its iset field and with one SeedResult per
\* accepted record of its own canonical key, microarchitecture and ISA.
C18_FamilyKeyIsCanonicalKey ==
    /\ \A key \in DOMAIN data : key[1] = data[key].tpg_canonical
    /\ \A a, b \in Processed :
        SameNicknamesOtherKey(a, b) =>
            LET ka == TripleOf(json_files[a])
                kb == TripleOf(json_files[b])
            IN  /\ ka \in DOMAIN data /\ kb \in DOMAIN data
                /\ ka[1] = CanonOf(json_files[a]).key
                /\ kb[1] = CanonOf(json_files[b]).key
                /\ data[ka].iset = IsetOf(json_files[a])
                /\ data[kb].iset = IsetOf(json_files[a])
                /\ Len(data[ka].seeds) = Cardinality(FilesOf(ka))
                /\ b \notin FilesOf(ka)

\* C18 witness: the build has returned after two accepted records with the
\* same three nicknames and different canonical keys, and the map has two
\* ArchGroups with that instruction-set nickname.
C18_Witness ==
    /\ pc = "built"
    /\ \E a, b \in Processed : SameNicknamesOtherKey(a, b)
    /\ \E k1, k2 \in DOMAIN data : k1 # k2 /\ data[k1].iset = data[k2].iset

\* ------------------------------------- claims on the post-passes (C21)
\* An ArchGroup without the three fields the post-passes annotate.
WithoutAnnotations(group) ==
    [group EXCEPT !.accuracy = None, !.uarch_ressources = None, !.norm_ressource = None]

\* C21: every step of import_tpg_accuracies, import_uarch_ressources and
\* assign_normalized_ressources leaves the set of (family, microarchitecture,
\* ISA) keys as it was and, in every cell, changes no field other than
\* accuracy, uarch_ressources and norm_ressource (seed list and identity
\* fields included).
C21_PostPassesOnlyAnnotate ==
    [][/\ DOMAIN data' = DOMAIN data
       /\ \A key \in DOMAIN data :
            /\ WithoutAnnotations(data'[key]) = WithoutAnnotations(data[key])
            /\ data'[key].seeds = data[key].seeds
            /\ Identity(data'[key]) = Identity(data[key])]_vars

\* C21 witness: the three passes have run on a map with several cells; one
\* cell has got all three annotations and another has got none.
C21_Witness ==
    /\ pc = "normalized"
    /\ \E k1, k2 \in DOMAIN data :
        /\ data[k1].accuracy # None
        /\ data[k1].uarch_ressources # None
        /\ data[k1].norm_ressource # None
        /\ Len(data[k1].seeds) > 0
        /\ data[k2].accuracy = None
        /\ data[k2].uarch_ressources = None
        /\ data[k2].norm_ressource = None

\* ------------------------------- claims on the sign of the latencies (C22)
\* C22: every record load_json_minimal has accepted, and every SeedResult in
\* the map, has a mean latency >= 0 and a stddev latency >= 0.
C22_LatenciesNotNegative ==
    /\ \A i \in Processed :
        load_json_minimal(json_files[i]) # None =>
            /\ load_json_minimal(json_files[i])[1].tpg_mean_latency >= 0
            /\ load_json_minimal(json_files[i])[1].tpg_stddev_latency >= 0
    /\ \A key \in DOMAIN data : \A k \in DOMAIN data[key].seeds :
            data[key].seeds[k].mean >= 0 /\ data[key].seeds[k].stddev >= 0

SkipWarnings ==
    {k \in DOMAIN printed :
        printed[k].text \in {"WARNING: Failed to load JSON",
                             "WARNING: JSON missing required keys",
                             "WARNING: Can't parse latency numbers",
                             "WARNING: Unexpected path structure"}}

\* The printed lines that report a number of skipped files.
SkipCounts == {k \in DOMAIN printed : "skipped" \in DOMAIN printed[k].args}

\* The run has ended: main has printed its summary, or the build has raised.
RunEnded == pc \in {"summary_printed", "build_raised"}

\* C24 as stated, the part on records: at the end of every run a printed line
\* reports the number of skipped records. (The code keeps no count of skipped
\* cells that a line could report.)
C24_EveryRunReportsSkips ==
    RunEnded => \E k \in SkipCounts : printed[k].args.skipped = skipped

\* C24 as amended: one warning is printed per skipped file; the number of
\* skipped files is printed once, on stderr, when build_hierarchical_data
\* returns with a counter that is not zero, and never when the counter is zero
\* or the build raises; the summary at the end of main reports the numbers of
\* TPGs, architectures and rows (one row per stored SeedResult) and nothing
\* about skips.
C24_SkipsReportedWhenNotZero ==
    /\ Cardinality(SkipWarnings) = skipped
    /\ pc \in {"build_loop", "build_raised"} => SkipCounts = {}
    /\ pc \in {"built", "aggregate_data_done", "aggregated", "summary_printed"} =>
        IF skipped = 0 THEN SkipCounts = {}
        ELSE \E k \in DOMAIN printed :
                /\ SkipCounts = {k}
                /\ printed[k].stream = "stderr"
                /\ printed[k].args.skipped = skipped
    /\ pc = "summary_printed" =>
        LET last == printed[Len(printed)]
        IN  /\ last.text = "SUMMARY"
            /\ DOMAIN last.args = {"TPGs", "architectures", "total_rows"}
            /\ last.args.total_rows = Len(json_files) - skipped

\* C24 witness: main has printed its summary after a build that skipped
\* files and stored others.
C24_Witness ==
    /\ pc = "summary_printed"
    /\ skipped > 0
    /\ DOMAIN data # {}

\* ------------------------------------- claims on the count of records (C25)
\* The SeedResults of the map, each named by its cell and its position.
StoredSeeds ==
    UNION {{<<key, k>> : k \in DOMAIN data[key].seeds} : key \in DOMAIN data}

\* C25: after every prefix of the list that build_hierarchical_data has
\* processed, the number of skipped files plus the number of SeedResults over
\* all ArchGroups is the length of the prefix; when the build returns it is
\* the length of the list.
C25_SkippedPlusStoredIsProcessed ==
    /\ pc \in {"build_loop", "build_raised"} =>
        skipped + Cardinality(StoredSeeds) = jf_i - 1
    /\ pc \in {"built", "aggregate_data_done", "aggregated", "summary_printed"} =>
        skipped + Cardinality(StoredSeeds) = Len(json_files)

\* C25 witness: the build has returned for a list with a skipped file and
\* two records of one cell with the same seed.
C25_Witness ==
    /\ pc = "built"
    /\ skipped > 0
    /\ \E key \in DOMAIN data : \E k1, k2 \in DOMAIN data[key].seeds :
            k1 # k2 /\ data[key].seeds[k1] = data[key].seeds[k2]

\* --------------------------------- claims on the rows that are removed (C26)
\* Row a is lower than or equal to row b in every objective.
LowerOrEqualAll(a, b) == \A k \in DOMAIN a : a[k] <= b[k]

\* C26: when is_pareto_efficient returns for a matrix with at least one row,
\* some row is marked efficient and every row marked not efficient has a row
\* marked efficient that is lower than or equal to it in every objective; and
\* the iteration on a candidate row leaves that row marked efficient.
C26_RemovedRowsAreWeaklyDominated ==
    [][/\ (pc' = "pareto_done" /\ Len(costs') >= 1) =>
            /\ \E i \in DOMAIN costs' : is_efficient'[i]
            /\ \A j \in DOMAIN costs' :
                ~is_efficient'[j] =>
                    \E i \in DOMAIN costs' :
                        is_efficient'[i] /\ LowerOrEqualAll(costs'[i], costs'[j])
       /\ (row_i' = row_i + 1 /\ is_efficient[row_i]) => is_efficient'[row_i]]_vars

\* C26 witness: the mask has been returned with a row removed by a row that
\* was removed later itself, so that the efficient row that is lower than or
\* equal to it is a third one.
C26_Witness ==
    /\ pc = "pareto_done"
    /\ \E i, j, t \in DOMAIN costs :
        /\ i < j /\ j < t
        /\ ~is_efficient[i] /\ ~is_efficient[j] /\ is_efficient[t]
        /\ costs[i] # costs[j] /\ costs[j] # costs[t]
        /\ LowerOrEqualAll(costs[j], costs[i])
        /\ LowerOrEqualAll(costs[t], costs[j])

\* ------------------------- claims on the pairs the global selection keeps (C27)
\* The cells of one family on one microarchitecture in the result of
\* select_best_isa_for_all_uarchs.
KeptOfPair(tpg, uarch) ==
    {k \in DOMAIN filtered_for_all[1].data : k[1] = tpg /\ k[2] = uarch}

\* C27 as stated: the result of select_best_isa_for_all_uarchs has exactly one
\* cell for every (family, microarchitecture) pair that has a cell with seed
\* results in the input.
C27_EveryPairKeepsOneIsa ==
    filtered_for_all # None =>
        \A key \in DOMAIN data :
            CellsOfPair(key[1], key[2]) # {} =>
                Cardinality(KeptOfPair(key[1], key[2])) = 1

\* C27 as amended: the result has at most one cell per (family,
\* microarchitecture) pair and the cells kept on one microarchitecture all
\* have the same ISA; a pair keeps its cell of that ISA, and a pair of the
\* input without a cell of that ISA is absent from the result; every
\* microarchitecture that has a cell with seed results keeps at least one pair.
C27_PairKeepsSharedIsaOrNothing ==
    filtered_for_all # None =>
        LET kept == DOMAIN filtered_for_all[1].data
        IN  /\ \A key \in DOMAIN data :
                    Cardinality(KeptOfPair(key[1], key[2])) <= 1
            /\ \A k1, k2 \in kept : k1[2] = k2[2] => k1[3] = k2[3]
            /\ \A key \in DOMAIN data : \A k \in kept :
                    (k[2] = key[2] /\ k[3] = key[3]) => key \in kept
            /\ \A key \in DOMAIN data :
                    CellsOfUarch(key[2]) # {} => \E k \in kept : k[2] = key[2]

\* C27 witness: a family with seed results on a microarchitecture is absent
\* from the result for that microarchitecture, where another family is kept.
C27_Witness ==
    /\ filtered_for_all # None
    /\ \E key \in DOMAIN data :
        /\ CellsOfPair(key[1], key[2]) # {}
        /\ KeptOfPair(key[1], key[2]) = {}
        /\ \E k \in DOMAIN filtered_for_all[1].data : k[2] = key[2] /\ k[1] # key[1]

\* ------------------------------ claims on what the baseline dominates (C28)
\* The resource triple of an annotated cell is the baseline's.
IsBaselineCell(key) ==
    /\ Res(key).dsps = baseline.dsps
    /\ Res(key).luts = baseline.luts
    /\ Res(key).regs = baseline.regs

AveragesOf(seed_result) ==
    IF seed_result.avg_nb_instr = None THEN None
    ELSE Some(Averages(seed_result.avg_nb_instr[1],
                       seed_result.avg_nb_evaluated_programs[1],
                       seed_result.avg_nb_evaluated_teams[1]))

\* C29: when import_tpg_nbInstr has ended, every SeedResult that carries
\* averages carries those of a file of the list with the canonical TPG name
\* of its ArchGroup and with its seed; and when the call has returned, for
\* every file of the list every SeedResult with the file's canonical TPG name
\* and seed carries averages.
C29_AveragesGoToTpgAndSeed ==
    pc \in {"nbInstr_imported", "import_tpg_nbInstr_raised"} =>
        /\ \A key \in DOMAIN data : \A k \in DOMAIN data[key].seeds :
                AveragesOf(data[key].seeds[k]) # None =>
                    \E n \in DOMAIN nbInstr_json_files :
                        /\ InfosCanon[nbInstr_json_files[n]].key = data[key].tpg_canonical
                        /\ InfosCanon[nbInstr_json_files[n]].seed = data[key].seeds[k].seed
                        /\ nbInstr_json_files[n].infos = AveragesOf(data[key].seeds[k])
        /\ pc = "nbInstr_imported" =>
                \A n \in DOMAIN nbInstr_json_files :
                    \A key \in DOMAIN data : \A k \in DOMAIN data[key].seeds :
                        (/\ InfosCanon[nbInstr_json_files[n]].key = data[key].tpg_canonical
                         /\ InfosCanon[nbInstr_json_files[n]].seed = data[key].seeds[k].seed)
                            => AveragesOf(data[key].seeds[k]) # None

\* ------------------------- claims on the microarchitecture nicknames (C30)
\* C30: for every two distinct raw microarchitecture names of the
\* configuration table, assign_simulator_nickname, applying its rules in the
\* listed order, returns two distinct nicknames.
C30_NicknamesAreDistinct ==
    (call # None /\ call.fn = "assign_simulator_nickname" /\ result # None) =>
        (call.args[1] # call.args[2] => result[1][1] # result[1][2])

\* C30 witness: the nicknames of cv32e40px and cv32e40x_im2 have been
\* computed; both have lost their x to the last rules, the first after the
\* rule for e4px has rewritten it, and they differ.
C30_Witness ==
    /\ call # None
    /\ call.fn = "assign_simulator_nickname"
    /\ call.args = <<"cv32e40px", "cv32e40x_im2">>
    /\ result = Some(<<"e4_im5d2", "e4_im4d0">>)

====
